---- MODULE Spec2Model ----
(***************************************************************************)
(* Presence/attendance engine of the access register (core/services.py):   *)
(* the Event Log (LogEntry rows), the Presence Resolver                    *)
(* (get_last_direction, get_present_now, is_entity_present), the           *)
(* Entry/Exit Validator (mark_employee_entry, mark_vehicle_entry) and the  *)
(* Ownership Linker (the mirrored employee entry of a vehicle event).      *)
(*                                                                         *)
(* Spec      : service calls executed one at a time, each call one step,   *)
(*             the storage layer answering every statement.                *)
(* FaultSpec : the same calls, in which one storage statement may raise.   *)
(* RaceSpec  : NReq request workers, every database statement of a call a  *)
(*             step of its own, interleaved arbitrarily (Django's default  *)
(*             autocommit: no transaction wraps a call).                   *)
(* PresentSpec : the calls of Spec on a log with vehicle and owner inside. *)
(* OwnerSpec : the calls of Spec on a register with several owners.        *)
(* HistSpec  : get_visit_history applied to logs of arbitrary rows.        *)
(* ReadSpec  : the calls of Spec interleaved with the history view.        *)
(* TieSpec   : rows stored while the clock stands still.                   *)
(* QuerySpec : the five queries applied to logs of arbitrary rows.         *)
(* ViewSpec  : the entry/exit views, which check and then call the service.*)
(* CrossSpec : the views on a register spanning two checkpoints.           *)
(* LocalFaultSpec : the calls of FaultSpec at a single checkpoint.         *)
(* RaceFairSpec : RaceSpec with every worker given time for its statements.*)
(* AdminSpec : the ModelAdmins of the admin site acting on a stored log.   *)
(***************************************************************************)
EXTENDS Integers, Sequences, FiniteSets, TLC

VARIABLES
    employees,   \* core_employee : id -> [nume, activ, location]
    vehicles,    \* core_vehicle  : id -> [plate_number, proprietar, activ, location]
    users,       \* core_user     : username -> [role, location]
    locations,   \* core_location : set of location ids
    log,         \* core_logentry : rows in insertion order (row id = index)
    now,         \* timezone.now(), in ticks
    last,        \* the latest service call: its arguments and returned tuple
    reqs,        \* RaceSpec: the request workers, slot -> request record
    query        \* the latest query: its name, its arguments, its result and
                 \* the number of log rows there were

vars == <<employees, vehicles, users, locations, log, now, last, reqs, query>>

\* ------------------------------------------------------------------ bounds
\* Largest number of rows created in one run (the clock starts at 1 and ticks
\* once for each row).
MaxLog == 3
\* Number of concurrent request workers of RaceSpec.
NReq == 2
\* Longest log of HistSpec.
MaxHist == 3
\* Clock ticks in a calendar day (the __date lookups compare days).
TicksPerDay == 2
\* get_visit_history(..., limit: int = 500)
DefaultLimit == 500

\* ------------------------------------------------------------------ values
None == "None"
\* None where a time or a date stands (times and dates are integers, and no
\* timestamp of a row is this low).
NoTime == -100
Directions == {"IN", "OUT"}

\* Where the storage layer may raise inside a call ("none": it does not).
EmployeeFaults == {"none", "lookup", "read", "create"}
VehicleFaults == {"none", "lookup", "read", "create", "owner", "emp_read", "mirror"}

\* Strings are sequences of characters; the alphabet of the names used below.
LowerChar(c) ==
    CASE c = "J" -> "j"
      [] c = "D" -> "d"
      [] c = "A" -> "a"
      [] OTHER -> c

RECURSIVE lower(_)
lower(s) == IF s = <<>> THEN <<>> ELSE <<LowerChar(Head(s))>> \o lower(Tail(s))

RECURSIVE lstrip(_)
lstrip(s) == IF s # <<>> /\ Head(s) = " " THEN lstrip(Tail(s)) ELSE s

RECURSIVE rstrip(_)
rstrip(s) == IF s # <<>> /\ s[Len(s)] = " " THEN rstrip(SubSeq(s, 1, Len(s) - 1)) ELSE s

strip(s) == rstrip(lstrip(s))

\* The nume__iexact lookup: case-insensitive, otherwise exact.
iexact(a, b) == lower(a) = lower(b)

\* The ids a caller may name: the rows of the table and one id with no row.
RequestIds(table) ==
    DOMAIN table \cup {Cardinality(DOMAIN table) + 1}

\* ------------------------------------------------------------- Event Log
\* Mutant of LogEntry_create: update_or_create keyed on the entity, which
\* overwrites the entity's row when it has one.
LogEntry_create_update_or_create(l, t, location, entity_type, entity_id, direction, recorded_by) ==
    LET rows == {i \in 1..Len(l) :
                    l[i].entity_type = entity_type /\ l[i].entity_id = entity_id}
        row(id) == [id |-> id, location |-> location, entity_type |-> entity_type,
                    entity_id |-> entity_id, direction |-> direction,
                    timestamp |-> t, recorded_by |-> recorded_by]
    IN  IF rows = {} THEN Append(l, row(Len(l) + 1))
        ELSE LET i == CHOOSE k \in rows : TRUE
             IN  [l EXCEPT ![i] = row(i)]

\* Mutant of LogEntry_create: recorded_by is not passed on (the field is
\* nullable, so the row is stored without it).
LogEntry_create_no_operator(l, t, location, entity_type, entity_id, direction, recorded_by) ==
    Append(l, [id |-> Len(l) + 1,
               location |-> location,
               entity_type |-> entity_type,
               entity_id |-> entity_id,
               direction |-> direction,
               timestamp |-> t,
               recorded_by |-> "None"])

\* LogEntry.objects.create(...): timestamp defaults to timezone.now().
LogEntry_create(l, t, location, entity_type, entity_id, direction, recorded_by) ==
    Append(l, [id |-> Len(l) + 1,
               location |-> location,
               entity_type |-> entity_type,
               entity_id |-> entity_id,
               direction |-> direction,
               timestamp |-> t,
               recorded_by |-> recorded_by])

\* The rows of one entity, as indices into the log.
EntityRows(l, entity_type, entity_id) ==
    {i \in 1..Len(l) : l[i].entity_type = entity_type /\ l[i].entity_id = entity_id}

\* ------------------------------------------------------ Presence Resolver
\* order_by('-timestamp'): the rows of `rows` a descending sort may put first.
\* Rows with equal timestamps have no defined order, so every one of them may
\* be the first.
TopRows(l, rows) ==
    {i \in rows : \A j \in rows : l[j].timestamp <= l[i].timestamp}

\* Mutant of get_last_direction: an entity with no row is reported as having
\* left ('OUT') instead of None.
get_last_direction_default_out(l, entity_type, entity_id) ==
    LET rows == EntityRows(l, entity_type, entity_id)
    IN  IF rows = {} THEN {"OUT"}
        ELSE {l[i].direction : i \in TopRows(l, rows)}

\* Mutant of get_last_direction: order_by('timestamp'), the oldest row first.
get_last_direction_oldest(l, entity_type, entity_id) ==
    LET rows == EntityRows(l, entity_type, entity_id)
    IN  IF rows = {} THEN {None}
        ELSE {l[i].direction :
                i \in {k \in rows : \A j \in rows : l[k].timestamp <= l[j].timestamp}}

\* get_last_direction: the set of values the call may return (one value
\* unless two rows of the entity tie on the timestamp).
get_last_direction(l, entity_type, entity_id) ==
    LET rows == EntityRows(l, entity_type, entity_id)
    IN  IF rows = {} THEN {None}
        ELSE {l[i].direction : i \in TopRows(l, rows)}

\* is_entity_present: the set of values the call may return.
is_entity_present(l, entity_type, entity_id) ==
    {last_direction = "IN" : last_direction \in get_last_direction(l, entity_type, entity_id)}

\* The rows the CTE of get_present_now reads: its WHERE clause on location_id
\* stands inside the CTE, so it filters the rows before they are partitioned.
CteRows(l, location) ==
    {i \in 1..Len(l) : location = None \/ l[i].location = location}

\* ROW_NUMBER() OVER (PARTITION BY entity_type, entity_id ORDER BY timestamp
\* DESC) = 1: the sets of rows the window may number 1, one row per partition.
RECURSIVE RowNumberOne(_, _, _)
RowNumberOne(l, rows, parts) ==
    IF parts = {} THEN {{}}
    ELSE LET p == CHOOSE x \in parts : TRUE
             prows == {i \in rows : <<l[i].entity_type, l[i].entity_id>> = p}
         IN  {{i} \cup rest : i \in TopRows(l, prows),
                              rest \in RowNumberOne(l, rows, parts \ {p})}

\* The entity rows get_present_now looks up by id (active or not).
EntityExists(entity_type, entity_id) ==
    \/ entity_type = "employee" /\ entity_id \in DOMAIN employees
    \/ entity_type = "vehicle" /\ entity_id \in DOMAIN vehicles

\* get_present_now(location): the set of results the call may return, each
\* result the set of its rows (location = None: the admin's view of all).
get_present_now(l, location) ==
    LET rows == CteRows(l, location)
        parts == {<<l[i].entity_type, l[i].entity_id>> : i \in rows}
    IN  {{[entity_type |-> l[i].entity_type,
           entity_id |-> l[i].entity_id,
           entry_time |-> l[i].timestamp,
           entry_location |-> l[i].location] :
             i \in {j \in pick : /\ l[j].direction = "IN"
                                 /\ EntityExists(l[j].entity_type, l[j].entity_id)}} :
         pick \in RowNumberOne(l, rows, parts)}

\* The rows the CTE of get_present_counts_by_location reads: WHERE 1=1, and
\* AND entity_type = 'employee' when employees_only; no clause on location_id.
CountRows(l, employees_only) ==
    {i \in 1..Len(l) : ~employees_only \/ l[i].entity_type = "employee"}

\* get_present_counts_by_location(employees_only): the set of dicts the call
\* may return. WHERE rn = 1 AND direction = 'IN' GROUP BY location_id: a dict
\* has a key for each location that has such a row and no key for the others;
\* the entity tables are not read.
get_present_counts_by_location(l, employees_only) ==
    LET rows == CountRows(l, employees_only)
        parts == {<<l[i].entity_type, l[i].entity_id>> : i \in rows}
        Dict(present) ==
            [location_id \in {l[i].location : i \in present} |->
                Cardinality({i \in present : l[i].location = location_id})]
    IN  {Dict({i \in pick : l[i].direction = "IN"}) :
            pick \in RowNumberOne(l, rows, parts)}

\* ------------------------------------------------------------ Visit Pairer
\* timestamp__date: the calendar day of a timestamp.
DateOf(t) == t \div TicksPerDay

\* LogEntry.objects.filter(**filters): a filter is applied when its argument
\* is truthy; the date bounds are __date__gte and __date__lte.
FilterRows(l, location, date_from, date_to, entity_type_filter) ==
    {i \in 1..Len(l) :
        /\ location = None \/ l[i].location = location
        /\ date_from = NoTime \/ DateOf(l[i].timestamp) >= date_from
        /\ date_to = NoTime \/ DateOf(l[i].timestamp) <= date_to
        /\ entity_type_filter = None \/ l[i].entity_type = entity_type_filter}

\* Row i sorts before row j under order_by('entity_type', 'entity_id',
\* 'timestamp') ('employee' < 'vehicle').
OrderedBefore(l, i, j) ==
    LET rank(r) == IF l[r].entity_type = "employee" THEN 1 ELSE 2
    IN  \/ rank(i) < rank(j)
        \/ rank(i) = rank(j) /\ l[i].entity_id < l[j].entity_id
        \/ /\ rank(i) = rank(j) /\ l[i].entity_id = l[j].entity_id
           /\ l[i].timestamp < l[j].timestamp

\* The sequences of rows the ordered query may yield: rows of one entity
\* with equal timestamps come in any order.
RECURSIVE OrderedEntries(_, _)
OrderedEntries(l, rows) ==
    IF rows = {} THEN {<<>>}
    ELSE UNION {{<<i>> \o rest : rest \in OrderedEntries(l, rows \ {i})} :
                  i \in {k \in rows : \A j \in rows : ~OrderedBefore(l, j, k)}}

\* defaultdict(list) filled in query order: the keys in order of first
\* appearance.
RECURSIVE EntityKeys(_, _)
EntityKeys(l, entries) ==
    IF entries = <<>> THEN <<>>
    ELSE LET key == <<l[Head(entries)].entity_type, l[Head(entries)].entity_id>>
             Other(i) == <<l[i].entity_type, l[i].entity_id>> # key
         IN  <<key>> \o EntityKeys(l, SelectSeq(Tail(entries), Other))

\* entity_entries[key]
EntityEntries(l, entries, key) ==
    LET Mine(i) == <<l[i].entity_type, l[i].entity_id>> = key
    IN  SelectSeq(entries, Mine)

\* The dict appended for an IN row and the OUT row that completes it (exit =
\* 0: still present, the exit fields are None). entity_name and
\* entity_department, read from the entity tables, are left out.
Visit(l, entry, exit) ==
    [entity_type |-> l[entry].entity_type,
     entity_id |-> l[entry].entity_id,
     entry_time |-> l[entry].timestamp,
     exit_time |-> IF exit = 0 THEN NoTime ELSE l[exit].timestamp,
     entry_location |-> l[entry].location,
     exit_location |-> IF exit = 0 THEN None ELSE l[exit].location,
     recorded_by_entry |-> l[entry].recorded_by,
     recorded_by_exit |-> IF exit = 0 THEN None ELSE l[exit].recorded_by]

\* Mutant of PairEntries: the `if current_entry:` block after the loop is
\* missing, so a visit still open is not reported.
RECURSIVE PairEntries_no_open(_, _, _)
PairEntries_no_open(l, elist, current_entry) ==
    IF elist = <<>> THEN <<>>
    ELSE LET entry == Head(elist)
         IN  IF l[entry].direction = "IN"
             THEN PairEntries_no_open(l, Tail(elist), entry)
             ELSE IF l[entry].direction = "OUT" /\ current_entry # 0
             THEN <<Visit(l, current_entry, entry)>>
                      \o PairEntries_no_open(l, Tail(elist), 0)
             ELSE PairEntries_no_open(l, Tail(elist), current_entry)

\* Mutant of PairEntries: an IN met while an IN is held does not replace it.
RECURSIVE PairEntries_keep_first(_, _, _)
PairEntries_keep_first(l, elist, current_entry) ==
    IF elist = <<>>
    THEN IF current_entry # 0 THEN <<Visit(l, current_entry, 0)>> ELSE <<>>
    ELSE LET entry == Head(elist)
         IN  IF l[entry].direction = "IN"
             THEN PairEntries_keep_first(l, Tail(elist),
                                         IF current_entry # 0 THEN current_entry ELSE entry)
             ELSE IF l[entry].direction = "OUT" /\ current_entry # 0
             THEN <<Visit(l, current_entry, entry)>>
                      \o PairEntries_keep_first(l, Tail(elist), 0)
             ELSE PairEntries_keep_first(l, Tail(elist), current_entry)

\* The loop over one entity's rows: the visits appended for the rows elist
\* when current_entry is held (0: None), the open visit after the loop
\* included.
RECURSIVE PairEntries(_, _, _)
PairEntries(l, elist, current_entry) ==
    IF elist = <<>>
    THEN IF current_entry # 0 THEN <<Visit(l, current_entry, 0)>> ELSE <<>>
    ELSE LET entry == Head(elist)
         IN  IF l[entry].direction = "IN"
             THEN PairEntries(l, Tail(elist), entry)
             ELSE IF l[entry].direction = "OUT" /\ current_entry # 0
             THEN <<Visit(l, current_entry, entry)>> \o PairEntries(l, Tail(elist), 0)
             ELSE PairEntries(l, Tail(elist), current_entry)

\* for (etype, eid), elist in entity_entries.items(): the list visits before
\* it is sorted.
RECURSIVE PairedVisits(_, _, _)
PairedVisits(l, entries, keys) ==
    IF keys = <<>> THEN <<>>
    ELSE PairEntries(l, EntityEntries(l, entries, Head(keys)), 0)
             \o PairedVisits(l, entries, Tail(keys))

\* Mutant of SortByEntryTime: reverse=True is missing (oldest first).
RECURSIVE SortByEntryTime_ascending(_)
SortByEntryTime_ascending(visits) ==
    IF visits = <<>> THEN <<>>
    ELSE LET m == CHOOSE k \in 1..Len(visits) :
                    /\ \A j \in 1..Len(visits) : visits[k].entry_time <= visits[j].entry_time
                    /\ \A j \in 1..(k - 1) : visits[k].entry_time < visits[j].entry_time
         IN  <<visits[m]>> \o SortByEntryTime_ascending(
                 SubSeq(visits, 1, m - 1) \o SubSeq(visits, m + 1, Len(visits)))

\* visits.sort(key=lambda x: x['entry_time'], reverse=True): the sort is
\* stable, visits with equal entry_time keep their order.
RECURSIVE SortByEntryTime(_)
SortByEntryTime(visits) ==
    IF visits = <<>> THEN <<>>
    ELSE LET m == CHOOSE k \in 1..Len(visits) :
                    /\ \A j \in 1..Len(visits) : visits[j].entry_time <= visits[k].entry_time
                    /\ \A j \in 1..(k - 1) : visits[j].entry_time < visits[k].entry_time
         IN  <<visits[m]>> \o SortByEntryTime(
                 SubSeq(visits, 1, m - 1) \o SubSeq(visits, m + 1, Len(visits)))

\* visits[:limit], for limit >= 0
Truncate(visits, limit) ==
    SubSeq(visits, 1, IF limit < Len(visits) THEN limit ELSE Len(visits))

\* get_visit_history: the set of lists the call may return (one list unless
\* two rows of an entity tie on the timestamp).
get_visit_history(l, location, date_from, date_to, entity_type_filter, limit) ==
    {Truncate(SortByEntryTime(PairedVisits(l, entries, EntityKeys(l, entries))), limit) :
        entries \in OrderedEntries(
            l, FilterRows(l, location, date_from, date_to, entity_type_filter))}

\* ---------------------------------------------------- Entry/Exit Validator
\* Mutant of ActiveEmployee: the activ=True filter is missing.
ActiveEmployee_any(employee_id) ==
    employee_id \in DOMAIN employees

\* Employee.objects.filter(id=employee_id, activ=True).first()
ActiveEmployee(employee_id) ==
    employee_id \in DOMAIN employees /\ employees[employee_id].activ

\* Vehicle.objects.filter(id=vehicle_id, activ=True).first()
ActiveVehicle(vehicle_id) ==
    vehicle_id \in DOMAIN vehicles /\ vehicles[vehicle_id].activ

\* Mutant of DoubleEntry: the check compares with the wrong direction.
DoubleEntry_wrong(direction, last_direction) ==
    direction = "IN" /\ last_direction = "OUT"

\* direction == "IN" and last_direction == "IN"
DoubleEntry(direction, last_direction) ==
    direction = "IN" /\ last_direction = "IN"

\* Mutant of ExitWithoutEntry: == "OUT" for != "IN", which lets an entity
\* with no row at all leave.
ExitWithoutEntry_onlyOut(direction, last_direction) ==
    direction = "OUT" /\ last_direction = "OUT"

\* direction == "OUT" and last_direction != "IN"
ExitWithoutEntry(direction, last_direction) ==
    direction = "OUT" /\ last_direction # "IN"

\* ------------------------------------------------------- Ownership Linker
\* Mutant of OwnerEmployees: the activ=True filter is missing.
OwnerEmployees_inactive(proprietar) ==
    {e \in DOMAIN employees : iexact(employees[e].nume, strip(proprietar))}

\* Mutant of OwnerEmployees: the owner string is compared as stored, without
\* strip().
OwnerEmployees_no_strip(proprietar) ==
    {e \in DOMAIN employees :
        employees[e].activ /\ iexact(employees[e].nume, proprietar)}

\* Employee.objects.filter(nume__iexact=vehicle.proprietar.strip(), activ=True):
\* the rows .first() may return (the default ordering is by nume, which does
\* not order two rows whose names differ in case only or not at all).
OwnerEmployees(proprietar) ==
    {e \in DOMAIN employees :
        employees[e].activ /\ iexact(employees[e].nume, strip(proprietar))}

\* Mutant of should_mark: the elif branch of the OUT direction is missing.
should_mark_in_only(direction, emp_last_direction) ==
    direction = "IN" /\ emp_last_direction # "IN"

\* Mutant of should_mark: the OUT branch does not look at the employee's state.
should_mark_out_unchecked(direction, emp_last_direction) ==
    \/ direction = "IN" /\ emp_last_direction # "IN"
    \/ direction = "OUT"

\* Mutant of should_mark: the linked employee is marked whatever their state.
should_mark_always(direction, emp_last_direction) ==
    direction \in {"IN", "OUT"}

\* Only auto-mark if employee state needs to change.
should_mark(direction, emp_last_direction) ==
    \/ direction = "IN" /\ emp_last_direction # "IN"
    \/ direction = "OUT" /\ emp_last_direction = "IN"

\* ------------------------------------------------- calls, one step each
\* The end of a call: the rows it has created are in the log and the caller
\* holds the returned tuple (success, message); err names the failure
\* message, linked the employee of linked_employee_msg (0: None). The
\* location and the operator of a call are used only in the rows it creates,
\* so they are remembered for a call that created one.
\* The service issues no query on the caller's behalf: what the caller last
\* asked stays with the caller.
Return(op, id, direction, location, recorded_by, ok, err, linked, newlog) ==
    /\ now + (Len(newlog) - Len(log)) <= MaxLog + 1
    /\ log' = newlog
    /\ now' = now + (Len(newlog) - Len(log))
    /\ last' = [op |-> op, id |-> id, direction |-> direction,
                location |-> IF newlog # log THEN location ELSE None,
                recorded_by |-> IF newlog # log THEN recorded_by ELSE None,
                ok |-> ok, err |-> err, linked |-> linked]
    /\ UNCHANGED <<employees, vehicles, users, locations, reqs>>

\* Mutant of mark_employee_entry: the last direction is looked up among the
\* rows of the call's location only (presence per location).
mark_employee_entry_per_location(employee_id, direction, location, recorded_by, fault) ==
    LET rows == {i \in EntityRows(log, "employee", employee_id) : log[i].location = location}
        here == IF rows = {} THEN {None} ELSE {log[i].direction : i \in TopRows(log, rows)}
    IN  \E last_direction \in here :
        LET Ret(ok, err, newlog) ==
                Return("employee", employee_id, direction, location, recorded_by,
                       ok, err, 0, newlog)
        IN  IF ~ActiveEmployee(employee_id) THEN Ret(FALSE, "notfound", log)
            ELSE IF DoubleEntry(direction, last_direction) THEN Ret(FALSE, "already", log)
            ELSE IF ExitWithoutEntry(direction, last_direction) THEN Ret(FALSE, "absent", log)
            ELSE Ret(TRUE, None,
                     LogEntry_create(log, now, location, "employee", employee_id,
                                     direction, recorded_by))

\* Mutant of mark_employee_entry: the row is created before the transition
\* is checked, so a rejected second IN is stored all the same.
mark_employee_entry_logs_rejected(employee_id, direction, location, recorded_by, fault) ==
    \E last_direction \in get_last_direction(log, "employee", employee_id) :
        LET Ret(ok, err, newlog) ==
                Return("employee", employee_id, direction, location, recorded_by,
                       ok, err, 0, newlog)
            log1 == LogEntry_create(log, now, location, "employee", employee_id,
                                    direction, recorded_by)
        IN  IF ~ActiveEmployee(employee_id) THEN Ret(FALSE, "notfound", log)
            ELSE IF DoubleEntry(direction, last_direction) THEN Ret(FALSE, "already", log1)
            ELSE IF ExitWithoutEntry(direction, last_direction) THEN Ret(FALSE, "absent", log)
            ELSE Ret(TRUE, None, log1)

\* Mutant of mark_employee_entry: a create that raised is issued once more
\* (the first had been stored when it raised), so the call stores two rows.
mark_employee_entry_retries(employee_id, direction, location, recorded_by, fault) ==
    \E last_direction \in get_last_direction(log, "employee", employee_id) :
        LET Ret(ok, err, newlog) ==
                Return("employee", employee_id, direction, location, recorded_by,
                       ok, err, 0, newlog)
            log1 == LogEntry_create(log, now, location, "employee", employee_id,
                                    direction, recorded_by)
        IN  IF fault = "lookup" THEN Ret(FALSE, "exception", log)
            ELSE IF ~ActiveEmployee(employee_id) THEN Ret(FALSE, "notfound", log)
            ELSE IF fault = "read" THEN Ret(FALSE, "exception", log)
            ELSE IF DoubleEntry(direction, last_direction) THEN Ret(FALSE, "already", log)
            ELSE IF ExitWithoutEntry(direction, last_direction) THEN Ret(FALSE, "absent", log)
            ELSE IF fault = "create"
            THEN Ret(TRUE, None,
                     LogEntry_create(log1, now + 1, location, "employee", employee_id,
                                     direction, recorded_by))
            ELSE Ret(TRUE, None, log1)

mark_employee_entry(employee_id, direction, location, recorded_by, fault) ==
    \E last_direction \in get_last_direction(log, "employee", employee_id) :
        LET Ret(ok, err, newlog) ==
                Return("employee", employee_id, direction, location, recorded_by,
                       ok, err, 0, newlog)
        IN  IF fault = "lookup" THEN Ret(FALSE, "exception", log)
            ELSE IF ~ActiveEmployee(employee_id) THEN Ret(FALSE, "notfound", log)
            ELSE IF fault = "read" THEN Ret(FALSE, "exception", log)
            ELSE IF DoubleEntry(direction, last_direction) THEN Ret(FALSE, "already", log)
            ELSE IF ExitWithoutEntry(direction, last_direction) THEN Ret(FALSE, "absent", log)
            ELSE IF fault = "create" THEN Ret(FALSE, "exception", log)
            ELSE Ret(TRUE, None,
                     LogEntry_create(log, now, location, "employee", employee_id,
                                     direction, recorded_by))

\* Mutant of mark_vehicle_entry: a vehicle is not let in while its owner is
\* on territory (the vehicle's check reads the owner's rows).
mark_vehicle_entry_owner_gate(vehicle_id, direction, location, recorded_by, fault) ==
    \E last_direction \in get_last_direction(log, "vehicle", vehicle_id) :
        LET Ret(ok, err, linked, newlog) ==
                Return("vehicle", vehicle_id, direction, location, recorded_by,
                       ok, err, linked, newlog)
            log1 == LogEntry_create(log, now, location, "vehicle", vehicle_id,
                                    direction, recorded_by)
        IN  IF ~ActiveVehicle(vehicle_id) THEN Ret(FALSE, "notfound", 0, log)
            ELSE IF DoubleEntry(direction, last_direction) THEN Ret(FALSE, "already", 0, log)
            ELSE IF ExitWithoutEntry(direction, last_direction) THEN Ret(FALSE, "absent", 0, log)
            ELSE IF OwnerEmployees(vehicles[vehicle_id].proprietar) = {}
                 THEN Ret(TRUE, None, 0, log1)
            ELSE \E employee \in OwnerEmployees(vehicles[vehicle_id].proprietar) :
                 \E emp_last_direction \in get_last_direction(log, "employee", employee) :
                      IF direction = "IN" /\ emp_last_direction = "IN"
                      THEN Ret(FALSE, "already", 0, log)
                      ELSE IF ~should_mark(direction, emp_last_direction)
                      THEN Ret(TRUE, None, 0, log1)
                      ELSE Ret(TRUE, None, employee,
                               LogEntry_create(log1, now + 1, location, "employee",
                                               employee, direction, recorded_by))

\* Mutant of mark_vehicle_entry: the owner is looked up and marked before the
\* vehicle's transition is checked, so a rejected call may have marked them.
mark_vehicle_entry_link_first(vehicle_id, direction, location, recorded_by, fault) ==
    \E last_direction \in get_last_direction(log, "vehicle", vehicle_id) :
        LET Ret(ok, err, linked, newlog) ==
                Return("vehicle", vehicle_id, direction, location, recorded_by,
                       ok, err, linked, newlog)
        IN  IF ~ActiveVehicle(vehicle_id) THEN Ret(FALSE, "notfound", 0, log)
            ELSE LET owners == OwnerEmployees(vehicles[vehicle_id].proprietar)
                 IN  \E employee \in IF owners = {} THEN {0} ELSE owners :
                     \E emp_last_direction \in
                            IF employee = 0 THEN {None}
                            ELSE get_last_direction(log, "employee", employee) :
                         LET mark == employee # 0 /\ should_mark(direction, emp_last_direction)
                             log1 == IF mark
                                     THEN LogEntry_create(log, now, location, "employee",
                                                          employee, direction, recorded_by)
                                     ELSE log
                         IN  IF DoubleEntry(direction, last_direction)
                             THEN Ret(FALSE, "already", 0, log1)
                             ELSE IF ExitWithoutEntry(direction, last_direction)
                             THEN Ret(FALSE, "absent", 0, log1)
                             ELSE Ret(TRUE, None, IF mark THEN employee ELSE 0,
                                      LogEntry_create(log1, now + Len(log1) - Len(log),
                                                      location, "vehicle", vehicle_id,
                                                      direction, recorded_by))

mark_vehicle_entry(vehicle_id, direction, location, recorded_by, fault) ==
    \E last_direction \in get_last_direction(log, "vehicle", vehicle_id) :
        LET Ret(ok, err, linked, newlog) ==
                Return("vehicle", vehicle_id, direction, location, recorded_by,
                       ok, err, linked, newlog)
            log1 == LogEntry_create(log, now, location, "vehicle", vehicle_id,
                                    direction, recorded_by)
        IN  IF fault = "lookup" THEN Ret(FALSE, "exception", 0, log)
            ELSE IF ~ActiveVehicle(vehicle_id) THEN Ret(FALSE, "notfound", 0, log)
            ELSE IF fault = "read" THEN Ret(FALSE, "exception", 0, log)
            ELSE IF DoubleEntry(direction, last_direction) THEN Ret(FALSE, "already", 0, log)
            ELSE IF ExitWithoutEntry(direction, last_direction) THEN Ret(FALSE, "absent", 0, log)
            ELSE IF fault = "create" THEN Ret(FALSE, "exception", 0, log)
            \* from here on the vehicle's row is stored
            ELSE IF vehicles[vehicle_id].proprietar = <<>> THEN Ret(TRUE, None, 0, log1)
            ELSE IF fault = "owner" THEN Ret(FALSE, "exception", 0, log1)
            ELSE IF OwnerEmployees(vehicles[vehicle_id].proprietar) = {}
                 THEN Ret(TRUE, None, 0, log1)
            ELSE \E employee \in OwnerEmployees(vehicles[vehicle_id].proprietar) :
                 IF fault = "emp_read" THEN Ret(FALSE, "exception", 0, log1)
                 ELSE \E emp_last_direction \in get_last_direction(log1, "employee", employee) :
                      IF ~should_mark(direction, emp_last_direction)
                      THEN Ret(TRUE, None, 0, log1)
                      ELSE IF fault = "mirror" THEN Ret(FALSE, "exception", 0, log1)
                      ELSE Ret(TRUE, None, employee,
                               LogEntry_create(log1, now + 1, location, "employee",
                                               employee, direction, recorded_by))

\* EmployeeUpdateView / EmployeeAdmin.list_editable: the activ flag is edited.
EmployeeUpdate(pk, activ) ==
    /\ pk \in DOMAIN employees
    /\ employees[pk].activ # activ
    /\ employees' = [employees EXCEPT ![pk].activ = activ]
    /\ UNCHANGED <<vehicles, users, locations, log, now, last, reqs, query>>

\* VehicleUpdateView / VehicleAdmin.list_editable: the activ flag is edited.
VehicleUpdate(pk, activ) ==
    /\ pk \in DOMAIN vehicles
    /\ vehicles[pk].activ # activ
    /\ vehicles' = [vehicles EXCEPT ![pk].activ = activ]
    /\ UNCHANGED <<employees, users, locations, log, now, last, reqs, query>>

\* ---------------------------------------------------------- the database
\* The employee "Jd" owns the vehicle (its owner field is typed " jD "); two
\* checkpoints, an administrator and an officer of L1.
Employees0 ==
    (1 :> [nume |-> <<"J", "d">>, activ |-> TRUE, location |-> "L1"])

Vehicles0 ==
    (1 :> [plate_number |-> "P1", proprietar |-> <<" ", "j", "D", " ">>,
           activ |-> TRUE, location |-> "L1"])

Users0 ==
    [u \in {"admin", "officer"} |->
        IF u = "admin" THEN [role |-> "admin", location |-> None]
        ELSE [role |-> "officer", location |-> "L1"]]

Locations0 == {"L1", "L2"}

\* No query yet: op names the query, the fields after it are its arguments,
\* those after rows its result (each query has a result field of its own).
NoQuery ==
    [asked |-> FALSE, op |-> "none",
     location |-> None, date_from |-> NoTime, date_to |-> NoTime,
     entity_type_filter |-> None, limit |-> 0,
     entity_type |-> None, entity_id |-> 0, employees_only |-> FALSE,
     rows |-> 0,
     visits |-> <<>>, direction |-> None, is_present |-> FALSE,
     present |-> {}, counts |-> <<>>]

NoCall ==
    [op |-> "none", id |-> 0, direction |-> None, location |-> None,
     recorded_by |-> None, ok |-> FALSE, err |-> None, linked |-> 0]

Init ==
    /\ employees = Employees0
    /\ vehicles = Vehicles0
    /\ users = Users0
    /\ locations = Locations0
    /\ log = <<>>
    /\ now = 1
    /\ last = NoCall
    /\ reqs = <<>>
    /\ query = NoQuery

\* LocationMixin.get_user_location and the entry views: an officer records at
\* the assigned location, an administrator at the location selected in the
\* session or, with none selected, at the entity's home location.
CallerLocations(user) ==
    IF users[user].role = "admin" THEN locations ELSE {users[user].location}

\* A call of the service with the storage layer answering every statement.
EmployeeCall ==
    \E employee_id \in RequestIds(employees), direction \in Directions,
       recorded_by \in DOMAIN users :
        \E location \in CallerLocations(recorded_by) :
            /\ mark_employee_entry(employee_id, direction, location, recorded_by, "none")
            /\ UNCHANGED query

VehicleCall ==
    \E vehicle_id \in RequestIds(vehicles), direction \in Directions,
       recorded_by \in DOMAIN users :
        \E location \in CallerLocations(recorded_by) :
            /\ mark_vehicle_entry(vehicle_id, direction, location, recorded_by, "none")
            /\ UNCHANGED query

EmployeeEdit == \E pk \in DOMAIN employees, activ \in BOOLEAN : EmployeeUpdate(pk, activ)

VehicleEdit == \E pk \in DOMAIN vehicles, activ \in BOOLEAN : VehicleUpdate(pk, activ)

Next ==
    \/ EmployeeCall
    \/ VehicleCall
    \/ EmployeeEdit
    \/ VehicleEdit

Spec == Init /\ [][Next]_vars

\* ------------------------------------------- calls with storage failures
\* A call in which one statement may raise (django.db.Error).
EmployeeCallFault ==
    \E employee_id \in RequestIds(employees), direction \in Directions,
       recorded_by \in DOMAIN users, fault \in EmployeeFaults :
        \E location \in CallerLocations(recorded_by) :
            /\ mark_employee_entry(employee_id, direction, location, recorded_by, fault)
            /\ UNCHANGED query

VehicleCallFault ==
    \E vehicle_id \in RequestIds(vehicles), direction \in Directions,
       recorded_by \in DOMAIN users, fault \in VehicleFaults :
        \E location \in CallerLocations(recorded_by) :
            /\ mark_vehicle_entry(vehicle_id, direction, location, recorded_by, fault)
            /\ UNCHANGED query

FaultNext ==
    \/ EmployeeCallFault
    \/ VehicleCallFault
    \/ EmployeeEdit
    \/ VehicleEdit

FaultSpec == Init /\ [][FaultNext]_vars

\* -------------------------------- storage failures at a single checkpoint
\* The calls of FaultSpec on the register of one checkpoint with its officer.
LocalInit ==
    /\ employees = Employees0
    /\ vehicles = Vehicles0
    /\ users = [u \in {"officer"} |-> Users0[u]]
    /\ locations = {"L1"}
    /\ log = <<>>
    /\ now = 1
    /\ last = NoCall
    /\ reqs = <<>>
    /\ query = NoQuery

LocalFaultSpec == LocalInit /\ [][FaultNext]_vars

\* ------------------------------------- calls on a log with both on territory
\* The log Spec reaches with one call, the officer's mark_vehicle_entry(1,
\* "IN") at L1 (the vehicle's row and the mirrored row of its owner); the two
\* rows were created before the run, at the ticks -1 and 0.
PresentLog ==
    LogEntry_create(
        LogEntry_create(<<>>, -1, "L1", "vehicle", 1, "IN", "officer"),
        0, "L1", "employee", 1, "IN", "officer")

PresentInit ==
    /\ employees = Employees0
    /\ vehicles = Vehicles0
    /\ users = Users0
    /\ locations = Locations0
    /\ log = PresentLog
    /\ now = 1
    /\ last = NoCall
    /\ reqs = <<>>
    /\ query = NoQuery

PresentSpec == PresentInit /\ [][Next]_vars

\* ------------------------------------------- calls on a register of owners
\* Two employees whose names differ in case only ("Jd", "JD") and one with
\* another name ("A"); vehicle 1 is owned by " jD ", vehicle 2 has no owner
\* (proprietar is blank=True); one checkpoint and its officer.
OwnerEmployees0 ==
    <<[nume |-> <<"J", "d">>, activ |-> TRUE, location |-> "L1"],
      [nume |-> <<"J", "D">>, activ |-> TRUE, location |-> "L1"],
      [nume |-> <<"A">>, activ |-> TRUE, location |-> "L1"]>>

OwnerVehicles0 ==
    <<[plate_number |-> "P1", proprietar |-> <<" ", "j", "D", " ">>,
       activ |-> TRUE, location |-> "L1"],
      [plate_number |-> "P2", proprietar |-> <<>>,
       activ |-> TRUE, location |-> "L1"]>>

OwnerInit ==
    /\ employees = OwnerEmployees0
    /\ vehicles = OwnerVehicles0
    /\ users = [u \in {"officer"} |-> Users0[u]]
    /\ locations = {"L1"}
    /\ log = <<>>
    /\ now = 1
    /\ last = NoCall
    /\ reqs = <<>>
    /\ query = NoQuery

OwnerNext ==
    \/ EmployeeCall
    \/ VehicleCall
    \/ EmployeeEdit

OwnerSpec == OwnerInit /\ [][OwnerNext]_vars

\* ------------------------------------------------ history of arbitrary logs
\* The rows get_visit_history reads need not be a log the Validator built:
\* the filters drop rows from it, and rows are also created by racing
\* requests. A row of any entity, direction and location is stored, each at a
\* tick of its own.
HistInsert ==
    \E entity_type \in {"employee", "vehicle"}, direction \in Directions,
       location \in locations :
        /\ ~query.asked
        /\ Len(log) < MaxHist
        /\ log' = LogEntry_create(log, now, location, entity_type, 1, direction, "admin")
        /\ now' = now + 1
        /\ UNCHANGED <<employees, vehicles, users, locations, last, reqs, query>>

\* HistoryTabView / HistoryExportView: one get_visit_history call (location
\* None: an administrator with no location selected).
HistQuery ==
    \E location \in locations \cup {None}, date_from \in {NoTime, 1},
       date_to \in {NoTime, 1},
       entity_type_filter \in {None, "employee", "vehicle"},
       limit \in {1, 2, DefaultLimit} :
        /\ ~query.asked
        /\ \E visits \in get_visit_history(log, location, date_from, date_to,
                                           entity_type_filter, limit) :
               query' = [NoQuery EXCEPT !.asked = TRUE, !.op = "get_visit_history",
                             !.location = location,
                             !.date_from = date_from, !.date_to = date_to,
                             !.entity_type_filter = entity_type_filter,
                             !.limit = limit, !.visits = visits, !.rows = Len(log)]
        /\ UNCHANGED <<employees, vehicles, users, locations, log, now, last, reqs>>

HistNext ==
    \/ HistInsert
    \/ HistQuery

HistSpec == Init /\ [][HistNext]_vars

\* ------------------------------------------------- rows at one clock value
\* timestamp defaults to timezone.now(), which need not have advanced
\* between two creates (two workers, or a clock of coarse resolution): rows
\* are stored at the current clock value, and the clock ticks on its own.
TieInsert ==
    \E entity_type \in {"employee", "vehicle"}, direction \in Directions,
       location \in locations :
        /\ Len(log) < MaxHist
        /\ log' = LogEntry_create(log, now, location, entity_type, 1, direction, "admin")
        /\ UNCHANGED <<employees, vehicles, users, locations, now, last, reqs, query>>

ClockTick ==
    /\ now < MaxHist
    /\ now' = now + 1
    /\ UNCHANGED <<employees, vehicles, users, locations, log, last, reqs, query>>

TieNext ==
    \/ TieInsert
    \/ ClockTick

TieSpec == Init /\ [][TieNext]_vars

\* ------------------------------------------- calls and the history view
\* HistoryTabView.get_context_data: the history of the user's location (an
\* officer's assigned location; an administrator's selected location, or
\* None with none selected), with no date and no kind chosen and limit=500.
HistoryView ==
    \E user \in DOMAIN users :
        \E location \in IF users[user].role = "admin" THEN locations \cup {None}
                        ELSE {users[user].location} :
            \E visits \in get_visit_history(log, location, NoTime, NoTime, None,
                                            DefaultLimit) :
                /\ query' = [NoQuery EXCEPT !.asked = TRUE, !.op = "get_visit_history",
                                 !.location = location, !.limit = DefaultLimit,
                                 !.visits = visits, !.rows = Len(log)]
                /\ UNCHANGED <<employees, vehicles, users, locations, log, now,
                               last, reqs>>

ReadNext ==
    \/ EmployeeCall
    \/ VehicleCall
    \/ HistoryView

ReadSpec == Init /\ [][ReadNext]_vars

\* ------------------------------------------------- queries of arbitrary logs
\* Mutant of QueryFrame: the query prunes the oldest row of the log.
QueryFrame_prunes ==
    /\ log' = IF log = <<>> THEN log ELSE Tail(log)
    /\ UNCHANGED <<employees, vehicles, users, locations, now, last, reqs>>

\* The frame of a query: it assigns nothing but the caller's result.
QueryFrame == UNCHANGED <<employees, vehicles, users, locations, log, now, last, reqs>>

\* get_last_direction(entity_type, entity_id)
LastDirectionQuery ==
    \E entity_type \in {"employee", "vehicle"} :
        \E entity_id \in RequestIds(IF entity_type = "employee" THEN employees ELSE vehicles) :
            \E direction \in get_last_direction(log, entity_type, entity_id) :
                /\ query' = [NoQuery EXCEPT !.asked = TRUE, !.op = "get_last_direction",
                                 !.entity_type = entity_type, !.entity_id = entity_id,
                                 !.direction = direction, !.rows = Len(log)]
                /\ QueryFrame

\* is_entity_present(entity_type, entity_id)
IsPresentQuery ==
    \E entity_type \in {"employee", "vehicle"} :
        \E entity_id \in RequestIds(IF entity_type = "employee" THEN employees ELSE vehicles) :
            \E is_present \in is_entity_present(log, entity_type, entity_id) :
                /\ query' = [NoQuery EXCEPT !.asked = TRUE, !.op = "is_entity_present",
                                 !.entity_type = entity_type, !.entity_id = entity_id,
                                 !.is_present = is_present, !.rows = Len(log)]
                /\ QueryFrame

\* get_present_now(location)
PresentNowQuery ==
    \E location \in locations \cup {None} :
        \E present \in get_present_now(log, location) :
            /\ query' = [NoQuery EXCEPT !.asked = TRUE, !.op = "get_present_now",
                             !.location = location, !.present = present,
                             !.rows = Len(log)]
            /\ QueryFrame

\* get_present_counts_by_location(employees_only)
CountsQuery ==
    \E employees_only \in BOOLEAN :
        \E counts \in get_present_counts_by_location(log, employees_only) :
            /\ query' = [NoQuery EXCEPT !.asked = TRUE,
                             !.op = "get_present_counts_by_location",
                             !.employees_only = employees_only, !.counts = counts,
                             !.rows = Len(log)]
            /\ QueryFrame

QueryNext ==
    \/ HistInsert
    \/ LastDirectionQuery
    \/ IsPresentQuery
    \/ PresentNowQuery
    \/ CountsQuery
    \/ HistoryView

QuerySpec == Init /\ [][QueryNext]_vars

\* --------------------------------------------------- the entry/exit views
\* What a form may post as direction: request.POST.get('direction').
PostedDirections == Directions \cup {"X"}

\* A response of a view that did not call the service (400, 404, 403): the
\* user holds the refusal and no row was created.
HttpResponse(op, id, direction, err) ==
    /\ last' = [op |-> op, id |-> id, direction |-> direction,
                location |-> None, recorded_by |-> None,
                ok |-> FALSE, err |-> err, linked |-> 0]
    /\ UNCHANGED <<employees, vehicles, users, locations, log, now, reqs>>

\* The get_present_now(location) an officer's OUT request asks before the
\* service is called, as the request holds it.
PresentCheck(location, present) ==
    [NoQuery EXCEPT !.asked = TRUE, !.op = "get_present_now",
                    !.location = location, !.present = present,
                    !.rows = Len(log)]

\* Mutant of EmployeeEntryView_post: an OUT that passed the officer's
\* membership check is stored without the service's own check.
EmployeeEntryView_post_trusts_check(pk, direction, user, session_location) ==
    LET is_admin == users[user].role = "admin"
        user_location == IF is_admin THEN session_location ELSE users[user].location
        location == IF user_location = None /\ is_admin /\ ActiveEmployee(pk)
                    THEN employees[pk].location ELSE user_location
    IN  IF direction \notin Directions
        THEN HttpResponse("employee", pk, direction, "invalid") /\ query' = NoQuery
        ELSE IF ~ActiveEmployee(pk)
        THEN HttpResponse("employee", pk, direction, "http404") /\ query' = NoQuery
        ELSE IF location = None
        THEN HttpResponse("employee", pk, direction, "nolocation") /\ query' = NoQuery
        ELSE IF ~is_admin /\ direction = "IN" /\ employees[pk].location # location
        THEN HttpResponse("employee", pk, direction, "forbidden") /\ query' = NoQuery
        ELSE IF ~is_admin /\ direction = "OUT"
        THEN \E present \in get_present_now(log, location) :
                /\ query' = PresentCheck(location, present)
                /\ IF \E p \in present : p.entity_type = "employee" /\ p.entity_id = pk
                   THEN Return("employee", pk, direction, location, user, TRUE, None, 0,
                               LogEntry_create(log, now, location, "employee", pk,
                                               direction, user))
                   ELSE HttpResponse("employee", pk, direction, "forbidden")
        ELSE mark_employee_entry(pk, direction, location, user, "none")
             /\ query' = NoQuery

\* Mutant of EmployeeEntryView_post: the officer's checks are left out, the
\* request goes to the service whatever the officer's location.
EmployeeEntryView_post_unchecked(pk, direction, user, session_location) ==
    LET is_admin == users[user].role = "admin"
        user_location == IF is_admin THEN session_location ELSE users[user].location
        location == IF user_location = None /\ is_admin /\ ActiveEmployee(pk)
                    THEN employees[pk].location ELSE user_location
    IN  IF direction \notin Directions
        THEN HttpResponse("employee", pk, direction, "invalid") /\ query' = NoQuery
        ELSE IF ~ActiveEmployee(pk)
        THEN HttpResponse("employee", pk, direction, "http404") /\ query' = NoQuery
        ELSE IF location = None
        THEN HttpResponse("employee", pk, direction, "nolocation") /\ query' = NoQuery
        ELSE IF ~is_admin /\ direction = "OUT"
        THEN \E present \in get_present_now(log, location) :
                /\ query' = PresentCheck(location, present)
                /\ mark_employee_entry(pk, direction, location, user, "none")
        ELSE mark_employee_entry(pk, direction, location, user, "none")
             /\ query' = NoQuery

\* Mutant of EmployeeEntryView_post: the posted direction is not validated.
EmployeeEntryView_post_any_direction(pk, direction, user, session_location) ==
    LET is_admin == users[user].role = "admin"
        user_location == IF is_admin THEN session_location ELSE users[user].location
        location == IF user_location = None /\ is_admin /\ ActiveEmployee(pk)
                    THEN employees[pk].location ELSE user_location
    IN  IF ~ActiveEmployee(pk)
        THEN HttpResponse("employee", pk, direction, "http404") /\ query' = NoQuery
        ELSE IF location = None
        THEN HttpResponse("employee", pk, direction, "nolocation") /\ query' = NoQuery
        ELSE IF ~is_admin /\ direction = "IN" /\ employees[pk].location # location
        THEN HttpResponse("employee", pk, direction, "forbidden") /\ query' = NoQuery
        ELSE IF ~is_admin /\ direction = "OUT"
        THEN \E present \in get_present_now(log, location) :
                /\ query' = PresentCheck(location, present)
                /\ IF \E p \in present : p.entity_type = "employee" /\ p.entity_id = pk
                   THEN mark_employee_entry(pk, direction, location, user, "none")
                   ELSE HttpResponse("employee", pk, direction, "forbidden")
        ELSE mark_employee_entry(pk, direction, location, user, "none")
             /\ query' = NoQuery

\* EmployeeEntryView.post: the posted direction is validated, the employee is
\* fetched (404 unless active), the location is the user's (an
\* administrator's selected location or, with none selected, the employee's
\* own), an officer's request is checked against the officer's location, and
\* then the service is called.
EmployeeEntryView_post(pk, direction, user, session_location) ==
    LET is_admin == users[user].role = "admin"
        user_location == IF is_admin THEN session_location ELSE users[user].location
        location == IF user_location = None /\ is_admin /\ ActiveEmployee(pk)
                    THEN employees[pk].location ELSE user_location
    IN  IF direction \notin Directions
        THEN HttpResponse("employee", pk, direction, "invalid") /\ query' = NoQuery
        ELSE IF ~ActiveEmployee(pk)
        THEN HttpResponse("employee", pk, direction, "http404") /\ query' = NoQuery
        ELSE IF location = None
        THEN HttpResponse("employee", pk, direction, "nolocation") /\ query' = NoQuery
        ELSE IF ~is_admin /\ direction = "IN" /\ employees[pk].location # location
        THEN HttpResponse("employee", pk, direction, "forbidden") /\ query' = NoQuery
        ELSE IF ~is_admin /\ direction = "OUT"
        THEN \E present \in get_present_now(log, location) :
                /\ query' = PresentCheck(location, present)
                /\ IF \E p \in present : p.entity_type = "employee" /\ p.entity_id = pk
                   THEN mark_employee_entry(pk, direction, location, user, "none")
                   ELSE HttpResponse("employee", pk, direction, "forbidden")
        ELSE mark_employee_entry(pk, direction, location, user, "none")
             /\ query' = NoQuery

\* Mutant of VehicleEntryView_post: the request of a user with no location
\* is not refused.
VehicleEntryView_post_no_location_check(pk, direction, user, session_location) ==
    LET is_admin == users[user].role = "admin"
        user_location == IF is_admin THEN session_location ELSE users[user].location
        location == IF user_location = None /\ is_admin /\ ActiveVehicle(pk)
                    THEN vehicles[pk].location ELSE user_location
    IN  IF direction \notin Directions
        THEN HttpResponse("vehicle", pk, direction, "invalid") /\ query' = NoQuery
        ELSE IF ~ActiveVehicle(pk)
        THEN HttpResponse("vehicle", pk, direction, "http404") /\ query' = NoQuery
        ELSE IF ~is_admin /\ direction = "IN" /\ vehicles[pk].location # location
        THEN HttpResponse("vehicle", pk, direction, "forbidden") /\ query' = NoQuery
        ELSE IF ~is_admin /\ direction = "OUT"
        THEN \E present \in get_present_now(log, location) :
                /\ query' = PresentCheck(location, present)
                /\ IF \E p \in present : p.entity_type = "vehicle" /\ p.entity_id = pk
                   THEN mark_vehicle_entry(pk, direction, location, user, "none")
                   ELSE HttpResponse("vehicle", pk, direction, "forbidden")
        ELSE mark_vehicle_entry(pk, direction, location, user, "none")
             /\ query' = NoQuery

\* VehicleEntryView.post: the same steps for a vehicle.
VehicleEntryView_post(pk, direction, user, session_location) ==
    LET is_admin == users[user].role = "admin"
        user_location == IF is_admin THEN session_location ELSE users[user].location
        location == IF user_location = None /\ is_admin /\ ActiveVehicle(pk)
                    THEN vehicles[pk].location ELSE user_location
    IN  IF direction \notin Directions
        THEN HttpResponse("vehicle", pk, direction, "invalid") /\ query' = NoQuery
        ELSE IF ~ActiveVehicle(pk)
        THEN HttpResponse("vehicle", pk, direction, "http404") /\ query' = NoQuery
        ELSE IF location = None
        THEN HttpResponse("vehicle", pk, direction, "nolocation") /\ query' = NoQuery
        ELSE IF ~is_admin /\ direction = "IN" /\ vehicles[pk].location # location
        THEN HttpResponse("vehicle", pk, direction, "forbidden") /\ query' = NoQuery
        ELSE IF ~is_admin /\ direction = "OUT"
        THEN \E present \in get_present_now(log, location) :
                /\ query' = PresentCheck(location, present)
                /\ IF \E p \in present : p.entity_type = "vehicle" /\ p.entity_id = pk
                   THEN mark_vehicle_entry(pk, direction, location, user, "none")
                   ELSE HttpResponse("vehicle", pk, direction, "forbidden")
        ELSE mark_vehicle_entry(pk, direction, location, user, "none")
             /\ query' = NoQuery

\* A request to a view: the session's current_location_id is read for an
\* administrator only (get_user_location).
EmployeePost ==
    \E pk \in RequestIds(employees), direction \in PostedDirections, user \in DOMAIN users :
        \E session_location \in IF users[user].role = "admin"
                                 THEN locations \cup {None} ELSE {None} :
            EmployeeEntryView_post(pk, direction, user, session_location)

VehiclePost ==
    \E pk \in RequestIds(vehicles), direction \in PostedDirections, user \in DOMAIN users :
        \E session_location \in IF users[user].role = "admin"
                                 THEN locations \cup {None} ELSE {None} :
            VehicleEntryView_post(pk, direction, user, session_location)

ViewNext ==
    \/ EmployeePost
    \/ VehiclePost
    \/ EmployeeEdit
    \/ VehicleEdit

ViewSpec == Init /\ [][ViewNext]_vars

\* ------------------------- the views on a register spanning two checkpoints
\* The owner "Jd" is registered at L2 and the vehicle at L1; besides the
\* administrator and the officer of L1 there is an officer to whom no
\* location has been assigned (User.location is nullable).
CrossEmployees0 ==
    (1 :> [nume |-> <<"J", "d">>, activ |-> TRUE, location |-> "L2"])

CrossUsers0 ==
    [u \in {"admin", "officer", "guard"} |->
        IF u = "admin" THEN [role |-> "admin", location |-> None]
        ELSE IF u = "officer" THEN [role |-> "officer", location |-> "L1"]
        ELSE [role |-> "officer", location |-> None]]

CrossInit ==
    /\ employees = CrossEmployees0
    /\ vehicles = Vehicles0
    /\ users = CrossUsers0
    /\ locations = Locations0
    /\ log = <<>>
    /\ now = 1
    /\ last = NoCall
    /\ reqs = <<>>
    /\ query = NoQuery

CrossSpec == CrossInit /\ [][ViewNext]_vars

\* ------------------------------------------------------- the admin site
\* The ModelAdmins of core/admin.py acting on a stored log. A superuser, a
\* staff administrator holding the delete permissions of the models whose
\* ModelAdmin does not override them, and the officer of L1.
AdminUsers0 ==
    [u \in {"root", "staff", "officer"} |->
        IF u = "root"
        THEN [role |-> "admin", location |-> None, is_superuser |-> TRUE,
              perms |-> {}]
        ELSE IF u = "staff"
        THEN [role |-> "admin", location |-> None, is_superuser |-> FALSE,
              perms |-> {"delete_user", "delete_location"}]
        ELSE [role |-> "officer", location |-> "L1", is_superuser |-> FALSE,
              perms |-> {}]]

\* The stored log: the rows of PresentLog and the owner's OUT at L2.
AdminLog0 ==
    LogEntry_create(PresentLog, 1, "L2", "employee", 1, "OUT", "staff")

AdminInit ==
    /\ employees = Employees0
    /\ vehicles = Vehicles0
    /\ users = AdminUsers0
    /\ locations = Locations0
    /\ log = AdminLog0
    /\ now = 2
    /\ last = NoCall
    /\ reqs = <<>>
    /\ query = NoQuery

\* The answer of the admin site to the user who asked (recorded_by: the user).
AdminResponse(op, id, user, ok, err) ==
    last' = [op |-> op, id |-> id, direction |-> None, location |-> None,
             recorded_by |-> user, ok |-> ok, err |-> err, linked |-> 0]

\* ModelAdmin.has_delete_permission of a model whose ModelAdmin keeps the
\* default: the user's model permission (a superuser has every permission).
has_perm(user, perm) ==
    users[user].is_superuser \/ perm \in users[user].perms

\* LogEntryAdmin.has_delete_permission: request.user.is_superuser.
LogEntryAdmin_has_delete_permission(user) ==
    users[user].is_superuser

\* The rows of l without those whose index is in gone.
RECURSIVE WithoutRows(_, _)
WithoutRows(l, gone) ==
    IF l = <<>> THEN <<>>
    ELSE LET front == WithoutRows(SubSeq(l, 1, Len(l) - 1), gone)
         IN  IF Len(l) \in gone THEN front ELSE Append(front, l[Len(l)])

\* LogEntryAdmin: the add view. has_add_permission is False for every user.
LogEntryAdmin_add ==
    \E user \in DOMAIN users :
        /\ AdminResponse("logentry_add", 0, user, FALSE, "forbidden")
        /\ UNCHANGED <<employees, vehicles, users, locations, log, now, reqs, query>>

\* LogEntryAdmin: the change view. has_change_permission is False for every
\* user (and every field is read-only).
LogEntryAdmin_change ==
    \E user \in DOMAIN users, i \in 1..Len(log) :
        /\ AdminResponse("logentry_change", log[i].id, user, FALSE, "forbidden")
        /\ UNCHANGED <<employees, vehicles, users, locations, log, now, reqs, query>>

\* LogEntryAdmin: the delete view and the delete_selected action.
LogEntryAdmin_delete ==
    \E user \in DOMAIN users, i \in 1..Len(log) :
        IF LogEntryAdmin_has_delete_permission(user)
        THEN /\ log' = WithoutRows(log, {i})
             /\ AdminResponse("logentry_delete", log[i].id, user, TRUE, None)
             /\ UNCHANGED <<employees, vehicles, users, locations, now, reqs, query>>
        ELSE /\ AdminResponse("logentry_delete", log[i].id, user, FALSE, "forbidden")
             /\ UNCHANGED <<employees, vehicles, users, locations, log, now, reqs, query>>

\* UserAdmin: the delete view. LogEntry.recorded_by is on_delete=SET_NULL: the
\* rows the deleted user recorded stay, with recorded_by set to NULL; rows
\* that are updated and not deleted need no permission of their own.
UserAdmin_delete ==
    \E user \in DOMAIN users, target \in DOMAIN users :
        IF has_perm(user, "delete_user")
        THEN /\ users' = [u \in DOMAIN users \ {target} |-> users[u]]
             /\ log' = [i \in 1..Len(log) |->
                           IF log[i].recorded_by = target
                           THEN [log[i] EXCEPT !.recorded_by = None] ELSE log[i]]
             /\ AdminResponse("user_delete", 0, user, TRUE, None)
             /\ UNCHANGED <<employees, vehicles, locations, now, reqs, query>>
        ELSE /\ AdminResponse("user_delete", 0, user, FALSE, "forbidden")
             /\ UNCHANGED <<employees, vehicles, users, locations, log, now, reqs, query>>

\* LocationAdmin: the delete view. Employee, Vehicle and LogEntry reference
\* the location with on_delete=CASCADE and User with SET_NULL; the admin site
\* refuses the deletion when the user may not delete one of the objects that
\* would go with it (for a LogEntry: LogEntryAdmin.has_delete_permission).
LocationAdmin_delete ==
    \E user \in DOMAIN users, location \in locations :
        LET gone == {i \in 1..Len(log) : log[i].location = location}
        IN  IF /\ has_perm(user, "delete_location")
               /\ gone # {} => LogEntryAdmin_has_delete_permission(user)
            THEN /\ locations' = locations \ {location}
                 /\ log' = WithoutRows(log, gone)
                 /\ employees' = [e \in {x \in DOMAIN employees :
                                           employees[x].location # location}
                                     |-> employees[e]]
                 /\ vehicles' = [v \in {x \in DOMAIN vehicles :
                                           vehicles[x].location # location}
                                    |-> vehicles[v]]
                 /\ users' = [u \in DOMAIN users |->
                                 IF users[u].location = location
                                 THEN [users[u] EXCEPT !.location = None]
                                 ELSE users[u]]
                 /\ AdminResponse("location_delete", 0, user, TRUE, None)
                 /\ UNCHANGED <<now, reqs, query>>
            ELSE /\ AdminResponse("location_delete", 0, user, FALSE, "forbidden")
                 /\ UNCHANGED <<employees, vehicles, users, locations, log, now,
                                reqs, query>>

AdminNext ==
    \/ LogEntryAdmin_add
    \/ LogEntryAdmin_change
    \/ LogEntryAdmin_delete
    \/ UserAdmin_delete
    \/ LocationAdmin_delete

AdminSpec == AdminInit /\ [][AdminNext]_vars

\* --------------------------------------- concurrent requests, statement-wise
\* No transaction and no lock wraps a call (services.py uses neither
\* transaction.atomic nor select_for_update), so between two statements of a
\* request any statement of another request may run.
Slots == 1..NReq

IdleReq ==
    [op |-> "none", id |-> 0, direction |-> None, location |-> None,
     recorded_by |-> None, pc |-> "idle", employee |-> 0,
     ok |-> FALSE, err |-> None, linked |-> 0]

Finish(r, ok, err, linked) ==
    reqs' = [reqs EXCEPT ![r].pc = "done", ![r].ok = ok, ![r].err = err,
                         ![r].linked = linked]

Goto(r, pc) == reqs' = [reqs EXCEPT ![r].pc = pc]

Tables == <<employees, vehicles, users, locations>>

\* A worker receives a request.
ReqStart(r, op, id, direction, location, recorded_by) ==
    /\ reqs[r].pc = "idle"
    /\ reqs' = [reqs EXCEPT ![r] = [IdleReq EXCEPT !.op = op, !.id = id,
                    !.direction = direction, !.location = location,
                    !.recorded_by = recorded_by, !.pc = "lookup"]]
    /\ UNCHANGED <<Tables, log, now, last, query>>

\* Employee/Vehicle.objects.filter(id=..., activ=True).first()
ReqLookup(r) ==
    /\ reqs[r].pc = "lookup"
    /\ LET found == IF reqs[r].op = "employee" THEN ActiveEmployee(reqs[r].id)
                    ELSE ActiveVehicle(reqs[r].id)
       IN  IF found THEN Goto(r, "read") ELSE Finish(r, FALSE, "notfound", 0)
    /\ UNCHANGED <<Tables, log, now, last, query>>

\* last_direction = self.get_last_direction(...), and the two checks on it
ReqRead(r) ==
    /\ reqs[r].pc = "read"
    /\ \E last_direction \in get_last_direction(log, reqs[r].op, reqs[r].id) :
         IF DoubleEntry(reqs[r].direction, last_direction)
         THEN Finish(r, FALSE, "already", 0)
         ELSE IF ExitWithoutEntry(reqs[r].direction, last_direction)
         THEN Finish(r, FALSE, "absent", 0)
         ELSE Goto(r, "create")
    /\ UNCHANGED <<Tables, log, now, last, query>>

\* Mutant of ReqCreate: the create waits until no other request is between
\* its read and its end (a lock held from the read on).
ReqCreate_waits(r) ==
    /\ reqs[r].pc = "create"
    /\ \A q \in Slots \ {r} : reqs[q].pc \in {"idle", "lookup", "read", "done"}
    /\ log' = LogEntry_create(log, now, reqs[r].location, reqs[r].op, reqs[r].id,
                              reqs[r].direction, reqs[r].recorded_by)
    /\ now' = now + 1
    /\ IF reqs[r].op = "employee" \/ vehicles[reqs[r].id].proprietar = <<>>
       THEN Finish(r, TRUE, None, 0)
       ELSE Goto(r, "owner")
    /\ UNCHANGED <<Tables, last, query>>

\* LogEntry.objects.create(...) of the requested entity
ReqCreate(r) ==
    /\ reqs[r].pc = "create"
    /\ log' = LogEntry_create(log, now, reqs[r].location, reqs[r].op, reqs[r].id,
                              reqs[r].direction, reqs[r].recorded_by)
    /\ now' = now + 1
    /\ IF reqs[r].op = "employee" \/ vehicles[reqs[r].id].proprietar = <<>>
       THEN Finish(r, TRUE, None, 0)
       ELSE Goto(r, "owner")
    /\ UNCHANGED <<Tables, last, query>>

\* Employee.objects.filter(nume__iexact=..., activ=True).first()
ReqOwner(r) ==
    /\ reqs[r].pc = "owner"
    /\ LET matches == OwnerEmployees(vehicles[reqs[r].id].proprietar)
       IN  IF matches = {} THEN Finish(r, TRUE, None, 0)
           ELSE \E employee \in matches :
                    reqs' = [reqs EXCEPT ![r].pc = "emp_read", ![r].employee = employee]
    /\ UNCHANGED <<Tables, log, now, last, query>>

\* emp_last_direction = self.get_last_direction("employee", employee.id)
ReqEmpRead(r) ==
    /\ reqs[r].pc = "emp_read"
    /\ \E emp_last_direction \in get_last_direction(log, "employee", reqs[r].employee) :
         IF should_mark(reqs[r].direction, emp_last_direction)
         THEN Goto(r, "mirror")
         ELSE Finish(r, TRUE, None, 0)
    /\ UNCHANGED <<Tables, log, now, last, query>>

\* LogEntry.objects.create(...) of the linked employee
ReqMirror(r) ==
    /\ reqs[r].pc = "mirror"
    /\ log' = LogEntry_create(log, now, reqs[r].location, "employee", reqs[r].employee,
                              reqs[r].direction, reqs[r].recorded_by)
    /\ now' = now + 1
    /\ Finish(r, TRUE, None, reqs[r].employee)
    /\ UNCHANGED <<Tables, last, query>>

\* One officer at one checkpoint: the requests differ in entity and direction.
RaceInit ==
    /\ employees = Employees0
    /\ vehicles = Vehicles0
    /\ users = [u \in {"officer"} |-> Users0[u]]
    /\ locations = {"L1"}
    /\ log = <<>>
    /\ now = 1
    /\ last = NoCall
    /\ reqs = [r \in Slots |-> IdleReq]
    /\ query = NoQuery

Start ==
    \E r \in Slots, op \in {"employee", "vehicle"}, direction \in Directions,
       recorded_by \in DOMAIN users :
        \E id \in RequestIds(IF op = "employee" THEN employees ELSE vehicles),
           location \in CallerLocations(recorded_by) :
            ReqStart(r, op, id, direction, location, recorded_by)

Lookup == \E r \in Slots : ReqLookup(r)

Read == \E r \in Slots : ReqRead(r)

Create == \E r \in Slots : ReqCreate(r)

Owner == \E r \in Slots : ReqOwner(r)

EmpRead == \E r \in Slots : ReqEmpRead(r)

Mirror == \E r \in Slots : ReqMirror(r)

RaceNext ==
    \/ Start
    \/ Lookup
    \/ Read
    \/ Create
    \/ Owner
    \/ EmpRead
    \/ Mirror

RaceSpec == RaceInit /\ [][RaceNext]_vars

\* The next statement of a request that has been received. Each worker runs
\* its request's statements one after the other and is given time to do so.
ReqStep(r) ==
    \/ ReqLookup(r)
    \/ ReqRead(r)
    \/ ReqCreate(r)
    \/ ReqOwner(r)
    \/ ReqEmpRead(r)
    \/ ReqMirror(r)

RaceFairSpec == RaceSpec /\ \A r \in Slots : WF_vars(ReqStep(r))

\* ================================================================ claims
\* A step in which a service call returned (an edit of the activ flag, or a
\* rejected call repeated with the same arguments, changes neither).
CallStep == last' # last \/ log' # log

\* The entity named by a call has a row, and its activ flag is true.
EntityActive(op, id) ==
    IF op = "employee"
    THEN id \in DOMAIN employees /\ employees[id].activ
    ELSE id \in DOMAIN vehicles /\ vehicles[id].activ

\* The directions of an entity's rows in timestamp order are IN, OUT, IN, ...:
\* no two rows share a timestamp and a row preceded by an even number of rows
\* is IN, by an odd number OUT.
Alternates(l, entity_type, entity_id) ==
    LET rows == EntityRows(l, entity_type, entity_id)
    IN  \A i \in rows :
            LET earlier == {j \in rows : l[j].timestamp < l[i].timestamp}
            IN  /\ \A j \in rows \ {i} : l[j].timestamp # l[i].timestamp
                /\ l[i].direction = IF Cardinality(earlier) % 2 = 0 THEN "IN" ELSE "OUT"

CountDir(l, entity_type, entity_id, direction) ==
    Cardinality({i \in EntityRows(l, entity_type, entity_id) : l[i].direction = direction})

AllEntities ==
    {<<"employee", e>> : e \in DOMAIN employees} \cup {<<"vehicle", v>> : v \in DOMAIN vehicles}

\* C2. Calls executed one at a time with increasing timestamps: right after a
\* call that accepted IN for an entity is_entity_present is true for it, right
\* after a call that accepted OUT it is false.
C2_PresenceFollowsAccepted ==
    last.ok => is_entity_present(log, last.op, last.id) = {last.direction = "IN"}

\* C2 witness: an OUT of a vehicle has just been accepted (after its IN).
C2_Witness ==
    last.ok /\ last.op = "vehicle" /\ last.direction = "OUT"

\* C3. If the most recent row of an entity is IN, a further IN request for it
\* (any location, any operator) fails and the log is left as it was; for an
\* entity that is active the failure is the 'already on territory' one.
C3_SecondInRejected ==
    [][(/\ CallStep
        /\ last'.direction = "IN"
        /\ get_last_direction(log, last'.op, last'.id) = {"IN"})
       => (/\ ~last'.ok
           /\ log' = log
           /\ (EntityActive(last'.op, last'.id) => last'.err = "already"))]_vars

\* C3 witness: an IN has just been rejected as 'already on territory'.
C3_Witness ==
    /\ ~last.ok /\ last.err = "already" /\ last.direction = "IN"
    /\ get_last_direction(log, last.op, last.id) = {"IN"}

\* C4. An OUT request for an entity whose most recent row is not IN (no row at
\* all, or OUT) fails and appends nothing; for an entity that is active the
\* failure is the 'not on territory' one.
C4_OutWithoutInRejected ==
    [][(/\ CallStep
        /\ last'.direction = "OUT"
        /\ "IN" \notin get_last_direction(log, last'.op, last'.id))
       => (/\ ~last'.ok
           /\ log' = log
           /\ (EntityActive(last'.op, last'.id) => last'.err = "absent"))]_vars

\* C4 witness: an OUT of an entity with no row at all has been rejected as
\* 'not on territory'.
C4_Witness ==
    /\ ~last.ok /\ last.err = "absent" /\ last.direction = "OUT"
    /\ EntityRows(log, last.op, last.id) = {}

\* C5. In every log reached by calls executed one at a time, the directions of
\* each entity's rows in timestamp order alternate and start with IN (the
\* mirrored employee rows included), so #IN - #OUT is 0 or 1.
C5_LogAlternates ==
    \A ent \in AllEntities :
        /\ Alternates(log, ent[1], ent[2])
        /\ CountDir(log, ent[1], ent[2], "IN") - CountDir(log, ent[1], ent[2], "OUT")
              \in {0, 1}

\* C5 witness: the employee was marked IN by the vehicle's IN (mirrored) and
\* has then left by a call of their own.
C5_Witness ==
    /\ Len(log) = 3
    /\ log[1].entity_type = "vehicle" /\ log[1].direction = "IN"
    /\ log[2].entity_type = "employee" /\ log[2].direction = "IN"
    /\ log[3].entity_type = "employee" /\ log[3].direction = "OUT"
    /\ last.ok /\ last.op = "employee"

\* C1. N >= 2 IN requests for the same active entity with no row, their
\* statements interleaved arbitrarily: exactly one succeeds and appends an IN
\* row, the others fail as 'already on territory' and append nothing.
C1_ExactlyOneConcurrentIn ==
    \A op \in {"employee", "vehicle"} :
        \A id \in DOMAIN (IF op = "employee" THEN employees ELSE vehicles) :
            (/\ EntityActive(op, id)
             /\ \A r \in DOMAIN reqs :
                    /\ reqs[r].pc = "done"
                    /\ reqs[r].op = op /\ reqs[r].id = id /\ reqs[r].direction = "IN")
            => (/\ Cardinality({r \in DOMAIN reqs : reqs[r].ok}) = 1
                /\ \A r \in DOMAIN reqs : ~reqs[r].ok => reqs[r].err = "already"
                /\ CountDir(log, op, id, "IN") = 1)

\* C6. A call that returns failure (not found, invalid transition, or a
\* storage exception caught in the call) leaves the log as it was.
C6_FailureAppendsNothing ==
    [][(CallStep /\ ~last'.ok) => log' = log]_vars

\* The row a successful call stores for the entity it was called for: the
\* first row it appends, with the call's direction, location and operator.
RequestedRowAppended ==
    /\ Len(log') > Len(log)
    /\ SubSeq(log', 1, Len(log)) = log
    /\ LET row == log'[Len(log) + 1]
       IN  /\ row.entity_type = last'.op
           /\ row.entity_id = last'.id
           /\ row.direction = last'.direction
           /\ row.location = last'.location
           /\ row.recorded_by = last'.recorded_by

\* C7 as claimed. A successful call appends exactly one row, the one for
\* (kind, id) with the requested direction, location and operator.
C7_ExactlyOneAppend ==
    [][(CallStep /\ last'.ok)
       => (RequestedRowAppended /\ Len(log') = Len(log) + 1)]_vars

\* C7 as amended. A successful call appends exactly one row for (kind, id),
\* with the requested direction, location and operator; a successful
\* mark_vehicle_entry may append one more row, the mirrored row of the linked
\* employee, and nothing else is appended.
C7_OneRowForRequestedEntity ==
    [][(CallStep /\ last'.ok)
       => (/\ RequestedRowAppended
           /\ \/ Len(log') = Len(log) + 1 /\ last'.linked = 0
              \/ /\ Len(log') = Len(log) + 2
                 /\ last'.op = "vehicle"
                 /\ log'[Len(log') ].entity_type = "employee"
                 /\ log'[Len(log') ].entity_id = last'.linked)]_vars

\* C7 witness: a vehicle call has succeeded and has mirrored the employee.
C7_Witness ==
    /\ last.ok /\ last.op = "vehicle" /\ last.linked # 0
    /\ log[Len(log)].entity_type = "employee"
    /\ log[Len(log) - 1].entity_type = "vehicle"

\* C8. A call for an id with no row, or with a row whose activ flag is false,
\* fails as NotFound, for either direction and whatever the entity's last
\* event is, and appends nothing.
C8_NotFoundFirst ==
    [][(CallStep /\ ~EntityActive(last'.op, last'.id))
       => (~last'.ok /\ last'.err = "notfound" /\ log' = log)]_vars

\* C8 witness: an OUT for a deactivated employee whose last event is IN (a
\* request the transition check would accept) has failed as NotFound.
C8_Witness ==
    /\ last.err = "notfound" /\ last.op = "employee" /\ last.direction = "OUT"
    /\ last.id \in DOMAIN employees
    /\ get_last_direction(log, "employee", last.id) = {"IN"}

\* C9. Presence used by the Validator is global: a call for an active entity
\* is accepted exactly when it is an IN and the entity's most recent row over
\* all locations is not IN, or an OUT and that row is IN; the location of the
\* call plays no part (an IN at L1 blocks an IN at L2 and allows an OUT at L2).
C9_GlobalPresenceDecides ==
    [][(CallStep /\ EntityActive(last'.op, last'.id))
       => (last'.ok <=>
             LET global == get_last_direction(log, last'.op, last'.id)
             IN  \/ last'.direction = "IN" /\ "IN" \notin global
                 \/ last'.direction = "OUT" /\ global = {"IN"})]_vars

\* C9 witness: an OUT has been accepted at a location other than the one of
\* the entity's IN.
C9_Witness ==
    /\ last.ok /\ last.direction = "OUT"
    /\ \E i \in EntityRows(log, last.op, last.id) :
          /\ log[i].direction = "IN"
          /\ log[i].location # last.location
          /\ log[i].timestamp + 1 = log[Len(log)].timestamp

\* The rows get_present_now(location) is claimed to return: the existing
\* entities whose most recent row over all locations is IN and at location.
GlobalPresentAt(l, location) ==
    {[entity_type |-> l[i].entity_type,
      entity_id |-> l[i].entity_id,
      entry_time |-> l[i].timestamp,
      entry_location |-> l[i].location] :
        i \in {j \in 1..Len(l) :
                 /\ EntityExists(l[j].entity_type, l[j].entity_id)
                 /\ j \in TopRows(l, EntityRows(l, l[j].entity_type, l[j].entity_id))
                 /\ l[j].direction = "IN"
                 /\ l[j].location = location}}

\* C10. For every location L, get_present_now(L) returns exactly the existing
\* entities whose globally most recent row is IN and at L; an entity whose
\* globally most recent event is OUT is never returned.
C10_PresentNowIsGlobal ==
    \A location \in locations :
        get_present_now(log, location) = {GlobalPresentAt(log, location)}

\* The employees whose most recent row over all locations is IN and at
\* location.
EmployeesLastInAt(l, location) ==
    {e \in {l[i].entity_id : i \in {k \in 1..Len(l) : l[k].entity_type = "employee"}} :
        \E i \in TopRows(l, EntityRows(l, "employee", e)) :
            l[i].direction = "IN" /\ l[i].location = location}

\* C11. For every log and location L, the count of
\* get_present_counts_by_location(employees_only=True) for L (0 when L is not
\* a key) is the number of employees whose globally most recent row is IN at
\* L, and it is the number of employee rows get_present_now(L) returns.
C11_CountsMatchPresentNow ==
    \A location \in locations :
        LET n == Cardinality(EmployeesLastInAt(log, location))
        IN  /\ \A counts \in get_present_counts_by_location(log, TRUE) :
                  IF n = 0 THEN location \notin DOMAIN counts
                  ELSE location \in DOMAIN counts /\ counts[location] = n
            /\ \A present \in get_present_now(log, location) :
                  Cardinality({p \in present : p.entity_type = "employee"}) = n

\* The active employees whose name is, case-insensitively, the trimmed owner
\* string of a vehicle (read from the tables).
MatchingOwners(vehicle_id) ==
    {e \in DOMAIN employees :
        /\ employees[e].activ
        /\ vehicles[vehicle_id].proprietar # <<>>
        /\ lower(employees[e].nume) = lower(strip(vehicles[vehicle_id].proprietar))}

\* The call of this step has appended, right after the vehicle's row, one row
\* for employee e with the direction, location and operator of the vehicle's
\* row and a later timestamp, and nothing else.
MirroredAfterVehicle(e) ==
    /\ Len(log') = Len(log) + 2
    /\ SubSeq(log', 1, Len(log)) = log
    /\ LET vrow == log'[Len(log) + 1]
           erow == log'[Len(log) + 2]
       IN  /\ vrow.entity_type = "vehicle" /\ vrow.entity_id = last'.id
           /\ erow.entity_type = "employee" /\ erow.entity_id = e
           /\ erow.direction = vrow.direction
           /\ erow.location = vrow.location
           /\ erow.recorded_by = vrow.recorded_by
           /\ erow.timestamp > vrow.timestamp

\* C12. A vehicle IN is accepted, an active employee matches the vehicle's
\* owner and the most recent row of the matching employees is not IN: the
\* same call appends, after the vehicle's row, an employee IN row with the
\* same location and operator, and is_entity_present is true for that
\* employee afterwards.
C12_VehicleInMirrorsOwner ==
    [][(/\ CallStep
        /\ last'.op = "vehicle" /\ last'.ok /\ last'.direction = "IN"
        /\ MatchingOwners(last'.id) # {}
        /\ \A e \in MatchingOwners(last'.id) :
              "IN" \notin get_last_direction(log, "employee", e))
       => \E e \in MatchingOwners(last'.id) :
              /\ MirroredAfterVehicle(e)
              /\ log'[Len(log')].direction = "IN"
              /\ is_entity_present(log', "employee", e) = {TRUE}]_vars

\* C12 witness: the administrator has recorded the vehicle's IN at L2 and the
\* call has mirrored the owner, who had no row, with an IN at L2.
C12_Witness ==
    /\ last.ok /\ last.op = "vehicle" /\ last.direction = "IN" /\ last.linked # 0
    /\ Len(log) = 2
    /\ log[1].entity_type = "vehicle" /\ log[1].location = "L2"
    /\ log[2].entity_type = "employee" /\ log[2].entity_id = last.linked
    /\ log[2].direction = "IN" /\ log[2].location = "L2"
    /\ log[2].recorded_by = "admin"
    /\ is_entity_present(log, "employee", last.linked) = {TRUE}

\* C13. A vehicle OUT is accepted, an active employee matches the vehicle's
\* owner and the most recent row of the matching employees is IN: the same
\* call appends, after the vehicle's row, an employee OUT row with the same
\* location and operator, and is_entity_present is false for that employee
\* afterwards.
C13_VehicleOutMirrorsOwner ==
    [][(/\ CallStep
        /\ last'.op = "vehicle" /\ last'.ok /\ last'.direction = "OUT"
        /\ MatchingOwners(last'.id) # {}
        /\ \A e \in MatchingOwners(last'.id) :
              get_last_direction(log, "employee", e) = {"IN"})
       => \E e \in MatchingOwners(last'.id) :
              /\ MirroredAfterVehicle(e)
              /\ log'[Len(log')].direction = "OUT"
              /\ is_entity_present(log', "employee", e) = {FALSE}]_vars

\* C13 witness: vehicle and owner on the territory (entered at L1), the
\* administrator has recorded the vehicle's OUT at L2 and the call has
\* mirrored the owner with an OUT at L2.
C13_Witness ==
    /\ last.ok /\ last.op = "vehicle" /\ last.direction = "OUT" /\ last.linked # 0
    /\ Len(log) = 4
    /\ log[3].entity_type = "vehicle" /\ log[3].direction = "OUT"
    /\ log[4].entity_type = "employee" /\ log[4].entity_id = last.linked
    /\ log[4].direction = "OUT" /\ log[4].location = "L2"
    /\ log[4].recorded_by = "admin"
    /\ is_entity_present(log, "employee", last.linked) = {FALSE}

\* C14. A vehicle event is accepted and the state of the matching active
\* employees would not change (vehicle IN while their most recent row is IN,
\* vehicle OUT while it is not IN): the call appends the vehicle's row and
\* nothing else, no employee's rows change, and the call still succeeds.
C14_NoMirrorWithoutChange ==
    [][(/\ CallStep
        /\ last'.op = "vehicle" /\ last'.ok
        /\ MatchingOwners(last'.id) # {}
        /\ \A e \in MatchingOwners(last'.id) :
              \/ /\ last'.direction = "IN"
                 /\ get_last_direction(log, "employee", e) = {"IN"}
              \/ /\ last'.direction = "OUT"
                 /\ "IN" \notin get_last_direction(log, "employee", e))
       => (/\ Len(log') = Len(log) + 1
           /\ SubSeq(log', 1, Len(log)) = log
           /\ log'[Len(log')].entity_type = "vehicle"
           /\ log'[Len(log')].entity_id = last'.id
           /\ log'[Len(log')].direction = last'.direction
           /\ last'.linked = 0
           /\ \A e \in DOMAIN employees :
                 EntityRows(log', "employee", e) = EntityRows(log, "employee", e))]_vars

\* C14 witness: the owner has entered by a call of their own, and the IN of
\* their vehicle has then been accepted with the vehicle's row only.
C14_Witness ==
    /\ last.ok /\ last.op = "vehicle" /\ last.direction = "IN" /\ last.linked = 0
    /\ MatchingOwners(last.id) # {}
    /\ Len(log) = 2
    /\ log[1].entity_type = "employee" /\ log[1].direction = "IN"
    /\ log[1].entity_id \in MatchingOwners(last.id)
    /\ log[2].entity_type = "vehicle" /\ log[2].direction = "IN"

\* C15. A rejected vehicle event never mirrors: a mark_vehicle_entry that
\* returns NotFound or an invalid transition appends no row, and a vehicle IN
\* requested while the vehicle's most recent row is IN (the second of two INs)
\* leaves every employee's rows as they were, so the two calls together have
\* appended at most the one mirrored IN of the first.
C15_RejectedNeverMirrors ==
    [][(CallStep /\ last'.op = "vehicle")
       => (/\ (~last'.ok /\ last'.err \in {"notfound", "already", "absent"})
                 => log' = log
           /\ (/\ last'.direction = "IN"
               /\ get_last_direction(log, "vehicle", last'.id) = {"IN"})
                 => \A e \in DOMAIN employees :
                       /\ EntityRows(log', "employee", e) = EntityRows(log, "employee", e)
                       /\ CountDir(log', "employee", e, "IN") = CountDir(log, "employee", e, "IN"))]_vars

\* C15 witness: the vehicle's IN has mirrored its owner, the owner has left,
\* and a second IN of the vehicle (which would mirror the owner again) has
\* been rejected with nothing appended.
C15_Witness ==
    /\ ~last.ok /\ last.op = "vehicle" /\ last.direction = "IN" /\ last.err = "already"
    /\ Len(log) = 3
    /\ log[1].entity_type = "vehicle" /\ log[1].direction = "IN"
    /\ log[2].entity_type = "employee" /\ log[2].direction = "IN"
    /\ log[3].entity_type = "employee" /\ log[3].direction = "OUT"
    /\ log[3].entity_id \in MatchingOwners(last.id)

\* C16. A vehicle event appends an employee row only for an employee that is
\* active and whose name is, case-insensitively, the vehicle's trimmed owner
\* string: never for a deactivated employee, never for one with another name,
\* for nobody when the owner field is empty, and for at most one employee
\* even when several active employees share the name.
C16_MirrorsOnlyMatchingOwner ==
    [][(CallStep /\ last'.op = "vehicle")
       => LET mirrored == {i \in (Len(log) + 1)..Len(log') :
                              log'[i].entity_type = "employee"}
          IN  /\ SubSeq(log', 1, Len(log)) = log
              /\ Cardinality(mirrored) <= 1
              /\ \A i \in mirrored :
                    /\ log'[i].entity_id \in MatchingOwners(last'.id)
                    /\ employees[log'[i].entity_id].activ
                    /\ employees[log'[i].entity_id].nume \in {<<"J", "d">>, <<"J", "D">>}
                    /\ vehicles[last'.id].proprietar # <<>>]_vars

\* C16 witness: the IN of vehicle 1 has mirrored employee 2 ("JD") and only
\* them, while employee 1 ("Jd") is active and absent as well.
C16_Witness ==
    /\ last.ok /\ last.op = "vehicle" /\ last.id = 1 /\ last.linked = 2
    /\ Len(log) = 2
    /\ log[2].entity_type = "employee" /\ log[2].entity_id = 2
    /\ DOMAIN employees = {1, 2, 3}
    /\ employees[1].activ /\ employees[2].activ
    /\ EntityRows(log, "employee", 1) = {}

\* No two rows of the entity that follow one another in timestamp order have
\* the same direction.
NoRepeatedDirection(l, entity_type, entity_id) ==
    LET rows == EntityRows(l, entity_type, entity_id)
    IN  \A i, j \in rows :
            (/\ i # j
             /\ l[i].timestamp <= l[j].timestamp
             /\ ~\E k \in rows \ {i, j} :
                    l[i].timestamp <= l[k].timestamp /\ l[k].timestamp <= l[j].timestamp)
            => l[i].direction # l[j].direction

\* C17. The mirrored append is atomic with its presence check: however the
\* statements of a vehicle event that mirrors employee E interleave with
\* those of another request that writes E's rows, E's rows never hold two
\* consecutive entries of the same direction.
C17_MirrorAtomicWithCheck ==
    \A r \in DOMAIN reqs :
        reqs[r].linked # 0
            => NoRepeatedDirection(log, "employee", reqs[r].linked)

\* The latest history query had no filter and a limit no visit list of this
\* log exceeds.
UnfilteredQuery ==
    /\ query.asked
    /\ query.location = None /\ query.entity_type_filter = None
    /\ query.date_from = NoTime /\ query.date_to = NoTime
    /\ query.limit >= Len(log)

\* The positions of the returned list that hold visits of one entity.
VisitsOfEntity(visits, entity_type, entity_id) ==
    {k \in 1..Len(visits) :
        visits[k].entity_type = entity_type /\ visits[k].entity_id = entity_id}

\* The number of rows of `rows` with the direction of row i and an earlier
\* timestamp: row i is the (DirRank + 1)-th IN, or OUT, of its entity.
DirRank(l, rows, i) ==
    Cardinality({j \in rows : /\ l[j].direction = l[i].direction
                              /\ l[j].timestamp < l[i].timestamp})

\* C18. For an entity whose rows are a clean alternating sequence IN(t1),
\* OUT(t2), IN(t3), ... with increasing timestamps, get_visit_history with no
\* filter and a sufficient limit returns exactly one visit per IN, the i-th
\* IN paired with the i-th OUT as exit_time, and the last visit is open
\* (exit_time None) exactly when the sequence ends with IN.
C18_CleanSequencePairs ==
    UnfilteredQuery =>
        \A ent \in AllEntities :
            Alternates(log, ent[1], ent[2]) =>
                LET rows == EntityRows(log, ent[1], ent[2])
                    ins == {i \in rows : log[i].direction = "IN"}
                    outs == rows \ ins
                    mine == VisitsOfEntity(query.visits, ent[1], ent[2])
                    ExitOf(i) ==
                        LET o == {j \in outs : DirRank(log, rows, j) = DirRank(log, rows, i)}
                        IN  IF o = {} THEN NoTime ELSE log[CHOOSE j \in o : TRUE].timestamp
                IN  /\ Cardinality(mine) = Cardinality(ins)
                    /\ \A i \in ins :
                          \E k \in mine :
                              /\ query.visits[k].entry_time = log[i].timestamp
                              /\ query.visits[k].exit_time = ExitOf(i)
                    /\ (\E k \in mine : query.visits[k].exit_time = NoTime)
                          <=> (\E i \in ins : \A j \in rows : log[j].timestamp <= log[i].timestamp)

\* C18 witness: the employee's rows are IN(1), OUT(2), IN(3) and the query
\* has returned the open visit {entry 3} and the closed visit {entry 1,
\* exit 2}.
C18_Witness ==
    /\ UnfilteredQuery
    /\ Len(log) = 3
    /\ \A i \in 1..3 : log[i].entity_type = "employee" /\ log[i].timestamp = i
    /\ log[1].direction = "IN" /\ log[2].direction = "OUT" /\ log[3].direction = "IN"
    /\ Len(query.visits) = 2
    /\ query.visits[1].entry_time = 3 /\ query.visits[1].exit_time = NoTime
    /\ query.visits[2].entry_time = 1 /\ query.visits[2].exit_time = 2

\* The rows of one entity that pass the filters of the latest query.
QueryRows(entity_type, entity_id) ==
    EntityRows(log, entity_type, entity_id)
        \cap FilterRows(log, query.location, query.date_from, query.date_to,
                        query.entity_type_filter)

\* Row j is the row that follows row i among `rows` in timestamp order.
FollowedBy(l, rows, i, j) ==
    /\ i \in rows /\ j \in rows
    /\ l[i].timestamp < l[j].timestamp
    /\ ~\E k \in rows : l[i].timestamp < l[k].timestamp /\ l[k].timestamp < l[j].timestamp

\* C19. Malformed sequences are paired without failing: in the filtered rows
\* of an entity, an IN followed by another IN gives no visit (the orphaned
\* IN), an IN followed by an OUT gives exactly one closed visit with that IN
\* as entry and that OUT as exit (so IN, IN, OUT gives one closed visit whose
\* entry is the later IN), and an OUT that is the first row or follows an OUT
\* is the exit of no visit.
C19_MalformedTolerated ==
    (query.asked /\ query.limit >= Len(log)) =>
        \A ent \in AllEntities :
            LET rows == QueryRows(ent[1], ent[2])
                mine == VisitsOfEntity(query.visits, ent[1], ent[2])
                EntryAt(i) == {k \in mine : query.visits[k].entry_time = log[i].timestamp}
                ExitAt(j) == {k \in mine : query.visits[k].exit_time = log[j].timestamp}
            IN  \A i \in rows :
                    /\ (/\ log[i].direction = "IN"
                        /\ \E j \in rows : FollowedBy(log, rows, i, j) /\ log[j].direction = "IN")
                          => EntryAt(i) = {}
                    /\ \A j \in rows :
                          (/\ log[i].direction = "IN" /\ log[j].direction = "OUT"
                           /\ FollowedBy(log, rows, i, j))
                          => /\ Cardinality(EntryAt(i)) = 1
                             /\ EntryAt(i) = ExitAt(j)
                    /\ (/\ log[i].direction = "OUT"
                        /\ ~\E h \in rows : FollowedBy(log, rows, h, i) /\ log[h].direction = "IN")
                          => ExitAt(i) = {}

\* C19 witness: the employee's rows are IN(1), IN(2), OUT(3) and the query
\* has returned one visit, {entry 2, exit 3}.
C19_Witness ==
    /\ UnfilteredQuery
    /\ Len(log) = 3
    /\ \A i \in 1..3 : log[i].entity_type = "employee" /\ log[i].timestamp = i
    /\ log[1].direction = "IN" /\ log[2].direction = "IN" /\ log[3].direction = "OUT"
    /\ Len(query.visits) = 1
    /\ query.visits[1].entry_time = 2 /\ query.visits[1].exit_time = 3

\* The elements of a list, as a set.
Range(seq) == {seq[k] : k \in 1..Len(seq)}

\* C20. The list get_visit_history(limit = n) returns is sorted by
\* entry_time in non-increasing order, has at most n elements, and holds the
\* n visits with the greatest entry_time among all the visits paired from the
\* filtered log of all entities (all of them when there are fewer than n).
C20_SortedThenTruncated ==
    query.asked =>
        \A full \in get_visit_history(log, query.location, query.date_from,
                                      query.date_to, query.entity_type_filter, Len(log)) :
            /\ \A k \in 1..(Len(query.visits) - 1) :
                  query.visits[k].entry_time >= query.visits[k + 1].entry_time
            /\ Len(query.visits) <= query.limit
            /\ Len(query.visits) = IF query.limit < Len(full) THEN query.limit ELSE Len(full)
            /\ Cardinality(Range(query.visits)) = Len(query.visits)
            /\ Range(query.visits) \subseteq Range(full)
            /\ \A v \in Range(full) \ Range(query.visits) :
                  \A w \in Range(query.visits) : v.entry_time <= w.entry_time

\* C20 witness: the employee entered at 1 and left at 3, the vehicle entered
\* at 2; with limit 1 the query has returned the vehicle's visit alone, the
\* one with the greatest entry_time of the two entities.
C20_Witness ==
    /\ query.asked /\ query.limit = 1
    /\ query.location = None /\ query.entity_type_filter = None
    /\ query.date_from = NoTime /\ query.date_to = NoTime
    /\ Len(log) = 3
    /\ log[1].entity_type = "employee" /\ log[1].direction = "IN"
    /\ log[2].entity_type = "vehicle" /\ log[2].direction = "IN"
    /\ log[3].entity_type = "employee" /\ log[3].direction = "OUT"
    /\ Len(query.visits) = 1
    /\ query.visits[1].entity_type = "vehicle" /\ query.visits[1].entry_time = 2

\* C21. The date range of get_visit_history is half-open: with date_from = a
\* and date_to = b only rows whose date d satisfies a <= d < b take part in
\* pairing, so no returned visit has an entry or an exit dated b.
C21_HalfOpenDateRange ==
    (query.asked /\ query.date_from # NoTime /\ query.date_to # NoTime) =>
        \A k \in 1..Len(query.visits) :
            /\ query.date_from <= DateOf(query.visits[k].entry_time)
            /\ DateOf(query.visits[k].entry_time) < query.date_to
            /\ query.visits[k].exit_time # NoTime
                  => DateOf(query.visits[k].exit_time) < query.date_to

\* The latest history view had no location selected and read the log as it
\* is now.
FreshUnfilteredView ==
    /\ query.asked /\ query.rows = Len(log)
    /\ query.location = None /\ query.entity_type_filter = None
    /\ query.date_from = NoTime /\ query.date_to = NoTime
    /\ query.limit >= Len(log)

\* The history views' results (one per location choice) on a log.
HistoryViews(l) ==
    [location \in locations \cup {None} |->
        get_visit_history(l, location, NoTime, NoTime, None, DefaultLimit)]

\* C22. Rejected events leave no trace in history: a call that fails changes
\* no result of get_visit_history, and for an entity whose accepted calls
\* were an IN and then an OUT (a rejected IN in between included)
\* get_visit_history returns exactly one visit, closed, with the IN's time as
\* entry_time and the OUT's time as exit_time, and is_entity_present is false.
C22_RejectedLeaveNoTrace ==
    /\ [][(CallStep /\ ~last'.ok)
            => (log' = log \/ HistoryViews(log') = HistoryViews(log))]_vars
    /\ [](FreshUnfilteredView =>
            \A ent \in AllEntities :
                LET rows == EntityRows(log, ent[1], ent[2])
                    mine == VisitsOfEntity(query.visits, ent[1], ent[2])
                IN  \A i, j \in rows :
                        (/\ rows = {i, j}
                         /\ log[i].direction = "IN" /\ log[j].direction = "OUT"
                         /\ log[i].timestamp < log[j].timestamp)
                        => (/\ Cardinality(mine) = 1
                            /\ \A k \in mine :
                                  /\ query.visits[k].entry_time = log[i].timestamp
                                  /\ query.visits[k].exit_time = log[j].timestamp
                            /\ is_entity_present(log, ent[1], ent[2]) = {FALSE}))

\* C22 witness: the employee's IN and OUT were accepted, and the history view
\* taken after the OUT holds the one closed visit {entry 1, exit 2}.
C22_Witness ==
    /\ FreshUnfilteredView
    /\ last.ok /\ last.op = "employee" /\ last.direction = "OUT"
    /\ Len(log) = 2
    /\ log[1].entity_type = "employee" /\ log[1].direction = "IN"
    /\ log[2].entity_type = "employee" /\ log[2].direction = "OUT"
    /\ Len(query.visits) = 1
    /\ query.visits[1].entry_time = 1 /\ query.visits[1].exit_time = 2
    /\ is_entity_present(log, "employee", 1) = {FALSE}

\* C23. The log is append-only under every engine operation: whatever the
\* step (a mark_employee_entry or mark_vehicle_entry call, or a query), every
\* row of the log is still there afterwards with the same fields, so the log
\* of an earlier state is a prefix of the log of every later state.
C23_AppendOnly ==
    [][/\ Len(log') >= Len(log)
       /\ \A i \in 1..Len(log) : log'[i] = log[i]]_vars

\* C23 witness: a history view was taken on a log of one row and two more
\* rows were appended after it, the second by a call for the same entity.
C23_Witness ==
    /\ query.asked /\ query.rows = 1
    /\ Len(log) = 3
    /\ last.ok
    /\ \E i \in 1..2 : /\ log[i].entity_type = log[3].entity_type
                       /\ log[i].entity_id = log[3].entity_id

\* The row of an entity that is the most recent when ties on the timestamp
\* are broken by the record id (the later inserted row wins).
LatestById(l, entity_type, entity_id) ==
    CHOOSE i \in EntityRows(l, entity_type, entity_id) :
        \A j \in EntityRows(l, entity_type, entity_id) :
            \/ l[j].timestamp < l[i].timestamp
            \/ l[j].timestamp = l[i].timestamp /\ j <= i

\* C24. When rows of an entity carry the same timestamp the Presence Resolver
\* takes the one inserted later (greater id) as the most recent:
\* get_last_direction, get_present_now and get_present_counts_by_location
\* all return, deterministically, the direction and location of that row.
C24_TiesBrokenById ==
    LET ents == {ent \in AllEntities : EntityRows(log, ent[1], ent[2]) # {}}
        latest == {LatestById(log, ent[1], ent[2]) : ent \in ents}
        ins == {i \in latest : log[i].direction = "IN"}
    IN  /\ \A ent \in ents :
              get_last_direction(log, ent[1], ent[2])
                  = {log[LatestById(log, ent[1], ent[2])].direction}
        /\ get_present_now(log, None)
              = {{[entity_type |-> log[i].entity_type,
                   entity_id |-> log[i].entity_id,
                   entry_time |-> log[i].timestamp,
                   entry_location |-> log[i].location] : i \in ins}}
        /\ get_present_counts_by_location(log, FALSE)
              = {[location_id \in {log[i].location : i \in ins} |->
                     Cardinality({i \in ins : log[i].location = location_id})]}

\* C25. An entity with no row is ABSENT: get_last_direction returns None and
\* is_entity_present false; on an empty log get_present_now returns an empty
\* list, get_present_counts_by_location an empty map and get_visit_history
\* an empty list, each of them a result and not a failure.
C25_NoRowsIsAbsent ==
    /\ \A ent \in AllEntities :
          EntityRows(log, ent[1], ent[2]) = {}
              => /\ get_last_direction(log, ent[1], ent[2]) = {None}
                 /\ is_entity_present(log, ent[1], ent[2]) = {FALSE}
    /\ log = <<>>
          => /\ \A location \in locations \cup {None} :
                    get_present_now(log, location) = {{}}
             /\ \A employees_only \in BOOLEAN :
                    /\ get_present_counts_by_location(log, employees_only) # {}
                    /\ \A counts \in get_present_counts_by_location(log, employees_only) :
                           DOMAIN counts = {}
             /\ query.asked => query.visits = <<>>

\* C25 witness: the history was asked for, with a location filter, on the
\* empty log and the empty list came back; no entity has a row.
C25_Witness ==
    /\ log = <<>>
    /\ query.asked /\ query.location = "L1" /\ query.visits = <<>>
    /\ \A ent \in AllEntities : get_last_direction(log, ent[1], ent[2]) = {None}

\* C26. The queries get_last_direction, is_entity_present, get_present_now,
\* get_present_counts_by_location and get_visit_history are read-only: a
\* step in which one of them is answered, whatever its arguments, leaves the
\* log and the entity tables as they were.
C26_QueriesReadOnly ==
    [][query' # query
       => (/\ log' = log
           /\ employees' = employees
           /\ vehicles' = vehicles)]_vars

\* C26 witness: get_present_now(L2) has been answered on a log of three
\* rows, with an entity in the answer.
C26_Witness ==
    /\ query.asked /\ query.op = "get_present_now" /\ query.location = "L2"
    /\ query.present # {}
    /\ Len(log) = 3 /\ query.rows = 3

\* C27: an officer's OUT request that passed the view's membership check
\* get_present_now(location) is checked again by the service against the
\* entity's globally latest row: when that row is an OUT (IN at the officer's
\* location, then OUT elsewhere) the request is refused with "absent" and no
\* row is created.
C27_CheckedAgainByService ==
    [][(/\ employees' = employees /\ vehicles' = vehicles
        /\ query'.asked /\ query'.op = "get_present_now"
        /\ query'.rows = Len(log)
        /\ last'.direction = "OUT"
        /\ \E p \in query'.present :
              p.entity_type = last'.op /\ p.entity_id = last'.id
        /\ get_last_direction(log, last'.op, last'.id) = {"OUT"})
       => (/\ ~last'.ok
           /\ last'.err = "absent"
           /\ log' = log)]_vars

C27_Witness ==
    /\ Len(log) = 2
    /\ log[1].entity_type = "employee" /\ log[1].entity_id = 1
    /\ log[1].direction = "IN" /\ log[1].location = "L1"
    /\ log[1].recorded_by = "officer"
    /\ log[2].entity_type = "employee" /\ log[2].entity_id = 1
    /\ log[2].direction = "OUT" /\ log[2].location = "L2"
    /\ query.asked /\ query.op = "get_present_now" /\ query.location = "L1"
    /\ query.rows = 2
    /\ \E p \in query.present : p.entity_type = "employee" /\ p.entity_id = 1
    /\ last.op = "employee" /\ last.id = 1 /\ last.direction = "OUT"
    /\ ~last.ok /\ last.err = "absent"

\* C28: for every log, an existing entity is in get_present_now(None) exactly
\* when is_entity_present is true for it, and it is there at most once
\* (whichever result each of the two queries may return).
C28_PresentNowAgrees ==
    \A present \in get_present_now(log, None) :
        \A ent \in AllEntities :
            LET mine == {p \in present : p.entity_type = ent[1] /\ p.entity_id = ent[2]}
            IN  /\ Cardinality(mine) <= 1
                /\ \A is_present \in is_entity_present(log, ent[1], ent[2]) :
                      (mine # {}) <=> is_present

\* C29: on a log made by calls executed one at a time, get_visit_history with
\* no filter and a sufficient limit holds an open visit (no exit_time) of an
\* entity exactly when is_entity_present is true for it, never more than one
\* open visit of an entity, and every closed visit ends no earlier than it
\* began.
C29_OpenVisitIffPresent ==
    (FreshUnfilteredView /\ query.op = "get_visit_history") =>
        /\ \A ent \in AllEntities :
              LET open == {k \in VisitsOfEntity(query.visits, ent[1], ent[2]) :
                              query.visits[k].exit_time = NoTime}
              IN  /\ Cardinality(open) <= 1
                  /\ (open # {}) <=> (is_entity_present(log, ent[1], ent[2]) = {TRUE})
        /\ \A k \in 1..Len(query.visits) :
              query.visits[k].exit_time # NoTime
                  => query.visits[k].exit_time >= query.visits[k].entry_time

C29_Witness ==
    /\ FreshUnfilteredView /\ query.op = "get_visit_history"
    /\ Len(log) = 3
    /\ is_entity_present(log, "employee", 1) = {TRUE}
    /\ Len(query.visits) = 2
    /\ \E k \in 1..2 :
          /\ query.visits[k].entity_type = "employee"
          /\ query.visits[k].exit_time = NoTime
          /\ query.visits[3 - k].entity_type = "employee"
          /\ query.visits[3 - k].exit_time > query.visits[3 - k].entry_time

\* C30: on a log made by calls executed one at a time, for a location L and a
\* sufficient limit, every IN row recorded at L is the entry of exactly one
\* visit of get_visit_history(location=L), and a visit returned open (no
\* exit_time) is of an entity that is present.
C30_LocationHistoryFaithful ==
    (/\ query.asked /\ query.op = "get_visit_history" /\ query.rows = Len(log)
     /\ query.location # None /\ query.entity_type_filter = None
     /\ query.date_from = NoTime /\ query.date_to = NoTime
     /\ query.limit >= Len(log))
    => /\ \A i \in 1..Len(log) :
             (log[i].direction = "IN" /\ log[i].location = query.location)
                 => Cardinality({k \in VisitsOfEntity(query.visits, log[i].entity_type,
                                                      log[i].entity_id) :
                                    /\ query.visits[k].entry_time = log[i].timestamp
                                    /\ query.visits[k].entry_location = query.location}) = 1
       /\ \A k \in 1..Len(query.visits) :
             query.visits[k].exit_time = NoTime
                 => is_entity_present(log, query.visits[k].entity_type,
                                      query.visits[k].entity_id) = {TRUE}

\* C31: deactivating an entity leaves its log-derived state as it is. An
\* entity whose latest row is an IN and that is deactivated stays present
\* (is_entity_present true, listed by get_present_now(None)); while it stays
\* deactivated every OUT call for it fails with the not-found message and no
\* call creates a row for it, so it cannot become absent.
C31_DeactivatedStaysPresent ==
    /\ [][\A ent \in AllEntities :
            (/\ is_entity_present(log, ent[1], ent[2]) = {TRUE}
             /\ IF ent[1] = "employee" THEN ~employees'[ent[2]].activ
                                       ELSE ~vehicles'[ent[2]].activ)
            => /\ is_entity_present(log', ent[1], ent[2]) = {TRUE}
               /\ EntityRows(log', ent[1], ent[2]) = EntityRows(log, ent[1], ent[2])
               /\ (CallStep /\ last'.op = ent[1] /\ last'.id = ent[2])
                     => (~last'.ok /\ last'.err = "notfound" /\ log' = log)]_vars
    /\ [](\A ent \in AllEntities :
            (~EntityActive(ent[1], ent[2])
                /\ is_entity_present(log, ent[1], ent[2]) = {TRUE})
            => \A present \in get_present_now(log, None) :
                  \E p \in present : p.entity_type = ent[1] /\ p.entity_id = ent[2])

C31_Witness ==
    /\ ~employees[1].activ
    /\ is_entity_present(log, "employee", 1) = {TRUE}
    /\ \E present \in get_present_now(log, None) :
          \E p \in present : p.entity_type = "employee" /\ p.entity_id = 1
    /\ last.op = "employee" /\ last.id = 1 /\ last.direction = "OUT"
    /\ ~last.ok /\ last.err = "notfound"

\* C32: every employee IN row recorded by an officer is of an employee whose
\* home location is that officer's assigned location, the rows created by
\* mirroring a vehicle event included.
C32_OfficerRowsOfOwnLocation ==
    \A i \in 1..Len(log) :
        (/\ log[i].entity_type = "employee"
         /\ log[i].direction = "IN"
         /\ users[log[i].recorded_by].role = "officer")
        => employees[log[i].entity_id].location = users[log[i].recorded_by].location

\* The home location of the entity a request names.
HomeLocation(op, id) ==
    IF op = "employee" THEN employees[id].location ELSE vehicles[id].location

\* C33: an officer's OUT request for an entity that is not in
\* get_present_now(the officer's location) is refused (403) before the service
\* is called and creates no row; an officer's IN request for an entity
\* registered at another location is refused as well, so every row an
\* officer's IN request creates for the requested entity is of an entity
\* registered at the officer's location.
C33_OfficerRefusedBeforeService ==
    [][(employees' = employees /\ vehicles' = vehicles)
       => /\ (/\ query'.asked /\ query'.op = "get_present_now"
              /\ last'.direction = "OUT"
              /\ ~\E p \in query'.present :
                    p.entity_type = last'.op /\ p.entity_id = last'.id)
             => (~last'.ok /\ last'.err = "forbidden" /\ log' = log)
          /\ (/\ log' # log
              /\ last'.direction = "IN"
              /\ users[last'.recorded_by].role = "officer")
             => (/\ HomeLocation(last'.op, last'.id) = users[last'.recorded_by].location
                 /\ last'.location = users[last'.recorded_by].location)
          /\ (last'.err = "forbidden" /\ last' # last) => log' = log]_vars

C33_Witness ==
    /\ Len(log) = 2
    /\ log[1].entity_type = "vehicle" /\ log[1].direction = "IN"
    /\ log[1].location = "L2" /\ log[1].recorded_by = "admin"
    /\ is_entity_present(log, "vehicle", 1) = {TRUE}
    /\ query.asked /\ query.op = "get_present_now" /\ query.location = "L1"
    /\ query.rows = 2 /\ query.present = {}
    /\ last.op = "vehicle" /\ last.id = 1 /\ last.direction = "OUT"
    /\ ~last.ok /\ last.err = "forbidden"

C35_DirectionValidated ==
    /\ [](\A i \in 1..Len(log) : log[i].direction \in Directions)
    /\ [][(last' # last /\ last'.direction \notin Directions)
            => (/\ ~last'.ok
                /\ last'.err = "invalid"
                /\ log' = log
                /\ ~query'.asked)]_vars

C35_Witness ==
    /\ last.op = "employee" /\ last.id \notin DOMAIN employees
    /\ last.direction = "X"
    /\ ~last.ok /\ last.err = "invalid"
    /\ Len(log) = 1

\* The rows of one kind, in the order of the log.
RowsOfKind(l, entity_type) ==
    LET OfKind(r) == r.entity_type = entity_type
    IN  SelectSeq(l, OfKind)

\* The transition is one the state machine allows after the latest direction.
LegalAfter(direction, last_directions) ==
    \/ direction = "IN" /\ last_directions # {"IN"}
    \/ direction = "OUT" /\ last_directions = {"IN"}

\* C36: the Ownership Linker works in one direction. A call of
\* mark_employee_entry creates employee rows only, leaves every stored row as
\* it is, and is accepted or rejected as it would be on the log without its
\* vehicle rows; a call of mark_vehicle_entry is accepted or rejected as it
\* would be on the log without its employee rows (the vehicle's own latest
\* direction), whatever the owner's state.
C36_LinkerOneDirectional ==
    [][CallStep =>
        /\ last'.op = "employee" =>
              /\ Len(log') >= Len(log) /\ SubSeq(log', 1, Len(log)) = log
              /\ \A i \in (Len(log) + 1)..Len(log') : log'[i].entity_type = "employee"
              /\ last'.ok <=>
                    (/\ EntityActive("employee", last'.id)
                     /\ LegalAfter(last'.direction,
                                   get_last_direction(RowsOfKind(log, "employee"),
                                                      "employee", last'.id)))
        /\ last'.op = "vehicle" =>
              (last'.ok <=>
                    (/\ EntityActive("vehicle", last'.id)
                     /\ LegalAfter(last'.direction,
                                   get_last_direction(RowsOfKind(log, "vehicle"),
                                                      "vehicle", last'.id))))]_vars

C36_Witness ==
    /\ Len(log) = 2
    /\ log[1].entity_type = "employee" /\ log[1].entity_id = 1 /\ log[1].direction = "IN"
    /\ log[2].entity_type = "vehicle" /\ log[2].entity_id = 1 /\ log[2].direction = "IN"
    /\ last.op = "vehicle" /\ last.ok /\ last.linked = 0

\* C37: a storage failure is not retried. A call creates at most one row for
\* the entity it was called for and at most one mirrored row (an employee's,
\* in a vehicle call); a call in which a statement raised returns a failed
\* result carrying the error, an employee call then having created no row
\* and a vehicle call at most the vehicle's row, never the mirrored one.
C37_NoRetry ==
    [][CallStep =>
        LET new == (Len(log) + 1)..Len(log')
            mine == {i \in new : /\ log'[i].entity_type = last'.op
                                 /\ log'[i].entity_id = last'.id}
        IN  /\ Len(log') >= Len(log) /\ SubSeq(log', 1, Len(log)) = log
            /\ Cardinality(mine) <= 1
            /\ Cardinality(new \ mine) <= 1
            /\ \A i \in new \ mine :
                  last'.op = "vehicle" /\ log'[i].entity_type = "employee"
            /\ last'.err = "exception" =>
                  /\ ~last'.ok
                  /\ new \ mine = {}
                  /\ last'.op = "employee" => log' = log]_vars

C37_Witness ==
    /\ Len(log) = 1
    /\ log[1].entity_type = "vehicle" /\ log[1].entity_id = 1 /\ log[1].direction = "IN"
    /\ employees[1].activ
    /\ last.op = "vehicle" /\ last.id = 1 /\ last.direction = "IN"
    /\ ~last.ok /\ last.err = "exception"

\* The place of a request in its sequence of statements.
PcRank(pc) ==
    CASE pc = "idle" -> 0
      [] pc = "lookup" -> 1
      [] pc = "read" -> 2
      [] pc = "create" -> 3
      [] pc = "owner" -> 4
      [] pc = "emp_read" -> 5
      [] pc = "mirror" -> 6
      [] pc = "done" -> 7

Running(r) == reqs[r].pc \notin {"idle", "done"}

\* C38: every request that has been received ends, given time for its own
\* statements, with a result (success, or failure with its message); each of
\* its steps moves it forward in the sequence lookup, read, create, owner
\* lookup, owner's read, mirrored create (at most two creates), and its next
\* statement can always be executed, whatever the other requests are doing.
C38_RequestsTerminate ==
    /\ \A r \in Slots : Running(r) ~> (reqs[r].pc = "done")
    /\ [](\A r \in Slots :
            /\ Running(r) => ENABLED ReqStep(r)
            /\ reqs[r].pc = "done" => (reqs[r].ok \/ reqs[r].err # None))
    /\ [][\A r \in Slots :
            reqs'[r] # reqs[r] => PcRank(reqs'[r].pc) > PcRank(reqs[r].pc)]_vars

C38_Witness ==
    /\ reqs[1].pc = "done" /\ reqs[1].ok /\ reqs[1].op = "vehicle" /\ reqs[1].linked = 1
    /\ reqs[2].pc = "done" /\ ~reqs[2].ok /\ reqs[2].err = "already"
    /\ Len(log) = 2

\* C39: through the admin site no user adds or changes a row of the log (every
\* row after a step is a row there was before it, as it was), and only a
\* superuser's action removes one.
C39_LogEntryAdminWriteOnce ==
    [][/\ \A i \in 1..Len(log') : \E j \in 1..Len(log) : log'[i] = log[j]
       /\ Len(log') < Len(log) => users[last'.recorded_by].is_superuser]_vars

====
